---- MODULE Spec2Model ----
(***************************************************************************)
(* Query routing, geographic scope expansion and LLM fallback of the       *)
(* QueryProcessor of src/app.py.                                           *)
(*                                                                         *)
(* Text is modelled as a sequence of Hangul syllables, each written as its *)
(* romanisation ("gang","nam","gu" is the district Gangnam-gu); a blank is  *)
(* the syllable " ".  Substring tests, split(), replace() and the regular  *)
(* expressions of the source are computed on these sequences.              *)
(***************************************************************************)
EXTENDS Integers, Sequences, FiniteSets, TLC

\* Python's None.  It is a one-element sequence so that it can be compared
\* with text; the marker is not a syllable of any text of the model.
Null == <<"None">>

\* Python truthiness of an optional text: None and '' are both false.
Truthy(s) == s # Null /\ s # <<>>

\* Python's `sub in s` on text.
Contains(s, sub) ==
  \E i \in 1..(Len(s) - Len(sub) + 1) : SubSeq(s, i, i + Len(sub) - 1) = sub

\* Python's s.startswith(p).
StartsWith(s, p) == Len(s) >= Len(p) /\ SubSeq(s, 1, Len(p)) = p

\* f"{a} {b}"
Join2(a, b) == a \o <<" ">> \o b

\* Python's s.split(): the maximal runs of non-blank syllables, in order.
RECURSIVE SplitFrom(_, _, _)
SplitFrom(s, i, cur) ==
  IF i > Len(s)
    THEN IF cur = <<>> THEN <<>> ELSE <<cur>>
    ELSE IF s[i] = " "
           THEN (IF cur = <<>> THEN <<>> ELSE <<cur>>) \o SplitFrom(s, i + 1, <<>>)
           ELSE SplitFrom(s, i + 1, Append(cur, s[i]))
Split(s) == SplitFrom(s, 1, <<>>)

\* Python's s.replace(old, "") for a non-empty old: every occurrence removed,
\* scanning left to right.
RECURSIVE RemoveAll(_, _)
RemoveAll(s, old) ==
  IF s = <<>> THEN <<>>
  ELSE IF StartsWith(s, old) THEN RemoveAll(SubSeq(s, Len(old) + 1, Len(s)), old)
  ELSE <<s[1]>> \o RemoveAll(Tail(s), old)

\* Python's s.strip(): leading and trailing blanks removed.
RECURSIVE LStrip(_)
LStrip(s) == IF s # <<>> /\ s[1] = " " THEN LStrip(Tail(s)) ELSE s
RECURSIVE RStrip(_)
RStrip(s) ==
  IF s # <<>> /\ s[Len(s)] = " " THEN RStrip(SubSeq(s, 1, Len(s) - 1)) ELSE s
Strip(s) == RStrip(LStrip(s))

\* seq[:n]
Take(seq, n) == SubSeq(seq, 1, IF n < Len(seq) THEN n ELSE Len(seq))

Range(seq) == {seq[i] : i \in 1..Len(seq)}

\* re.findall(r'(\w+X)', s) for a one-syllable suffix X: \w+ is greedy and
\* does not cross a blank, so each word yields at most one match, running
\* from the start of the word to the last X that is not its first syllable.
LastSuffixAt(w, x) ==
  LET P == {i \in 2..Len(w) : w[i] = x}
  IN  IF P = {} THEN 0 ELSE CHOOSE i \in P : \A j \in P : j <= i
SuffixMatches(s, x) ==
  LET ws   == Split(s)
      hit  == [i \in 1..Len(ws) |->
                 IF LastSuffixAt(ws[i], x) = 0 THEN <<>>
                 ELSE SubSeq(ws[i], 1, LastSuffixAt(ws[i], x))]
      Some(m) == m # <<>>
  IN  SelectSeq(hit, Some)

(***************************************************************************)
(* Region gazetteer: the five adjacency tables, each a sequence of         *)
(* <<region, declared neighbours>> in the declaration order of the source  *)
(* (a Python dict iterates in insertion order).                            *)
(***************************************************************************)
SEOUL_DISTRICT_NEIGHBORS ==
  <<
    <<<<"gang","nam","gu">>, <<<<"seo","cho","gu">>, <<"song","pa","gu">>, <<"gang","dong","gu">>, <<"seong","dong","gu">>, <<"yong","san","gu">>>>>>,
    <<<<"gang","dong","gu">>, <<<<"song","pa","gu">>, <<"gang","nam","gu">>, <<"gwang","jin","gu">>, <<"seong","dong","gu">>>>>>,
    <<<<"gang","buk","gu">>, <<<<"do","bong","gu">>, <<"no","won","gu">>, <<"seong","buk","gu">>, <<"jung","rang","gu">>>>>>,
    <<<<"gang","seo","gu">>, <<<<"yang","cheon","gu">>, <<"yeong","deung","po","gu">>, <<"gu","ro","gu">>, <<"ma","po","gu">>>>>>,
    <<<<"gwan","ak","gu">>, <<<<"dong","jak","gu">>, <<"seo","cho","gu">>, <<"geum","cheon","gu">>, <<"yeong","deung","po","gu">>>>>>,
    <<<<"gwang","jin","gu">>, <<<<"seong","dong","gu">>, <<"gang","dong","gu">>, <<"song","pa","gu">>, <<"jung","rang","gu">>, <<"dong","dae","mun","gu">>>>>>,
    <<<<"gu","ro","gu">>, <<<<"yang","cheon","gu">>, <<"gang","seo","gu">>, <<"yeong","deung","po","gu">>, <<"geum","cheon","gu">>, <<"gwan","ak","gu">>>>>>,
    <<<<"geum","cheon","gu">>, <<<<"gu","ro","gu">>, <<"yeong","deung","po","gu">>, <<"gwan","ak","gu">>>>>>,
    <<<<"no","won","gu">>, <<<<"do","bong","gu">>, <<"gang","buk","gu">>, <<"jung","rang","gu">>, <<"seong","buk","gu">>>>>>,
    <<<<"do","bong","gu">>, <<<<"gang","buk","gu">>, <<"no","won","gu">>, <<"seong","buk","gu">>>>>>,
    <<<<"dong","dae","mun","gu">>, <<<<"jung","rang","gu">>, <<"seong","buk","gu">>, <<"seong","dong","gu">>, <<"gwang","jin","gu">>, <<"jong","ro","gu">>>>>>,
    <<<<"dong","jak","gu">>, <<<<"yeong","deung","po","gu">>, <<"gwan","ak","gu">>, <<"seo","cho","gu">>, <<"yong","san","gu">>>>>>,
    <<<<"ma","po","gu">>, <<<<"seo","dae","mun","gu">>, <<"yong","san","gu">>, <<"yeong","deung","po","gu">>, <<"gang","seo","gu">>, <<"yang","cheon","gu">>, <<"eun","pyeong","gu">>>>>>,
    <<<<"seo","dae","mun","gu">>, <<<<"eun","pyeong","gu">>, <<"ma","po","gu">>, <<"yong","san","gu">>, <<"jung","gu">>, <<"jong","ro","gu">>>>>>,
    <<<<"seo","cho","gu">>, <<<<"gang","nam","gu">>, <<"yong","san","gu">>, <<"dong","jak","gu">>, <<"gwan","ak","gu">>>>>>,
    <<<<"seong","dong","gu">>, <<<<"gwang","jin","gu">>, <<"dong","dae","mun","gu">>, <<"jung","gu">>, <<"yong","san","gu">>, <<"gang","nam","gu">>, <<"song","pa","gu">>, <<"gang","dong","gu">>>>>>,
    <<<<"seong","buk","gu">>, <<<<"gang","buk","gu">>, <<"do","bong","gu">>, <<"no","won","gu">>, <<"jung","rang","gu">>, <<"dong","dae","mun","gu">>, <<"jong","ro","gu">>>>>>,
    <<<<"song","pa","gu">>, <<<<"gang","dong","gu">>, <<"gang","nam","gu">>, <<"seong","dong","gu">>, <<"gwang","jin","gu">>>>>>,
    <<<<"yang","cheon","gu">>, <<<<"gang","seo","gu">>, <<"yeong","deung","po","gu">>, <<"gu","ro","gu">>, <<"ma","po","gu">>>>>>,
    <<<<"yeong","deung","po","gu">>, <<<<"yang","cheon","gu">>, <<"gang","seo","gu">>, <<"ma","po","gu">>, <<"yong","san","gu">>, <<"dong","jak","gu">>, <<"gwan","ak","gu">>, <<"gu","ro","gu">>, <<"geum","cheon","gu">>>>>>,
    <<<<"yong","san","gu">>, <<<<"jung","gu">>, <<"seong","dong","gu">>, <<"gang","nam","gu">>, <<"seo","cho","gu">>, <<"dong","jak","gu">>, <<"yeong","deung","po","gu">>, <<"ma","po","gu">>, <<"seo","dae","mun","gu">>, <<"jong","ro","gu">>>>>>,
    <<<<"eun","pyeong","gu">>, <<<<"seo","dae","mun","gu">>, <<"ma","po","gu">>, <<"jong","ro","gu">>>>>>,
    <<<<"jong","ro","gu">>, <<<<"eun","pyeong","gu">>, <<"seo","dae","mun","gu">>, <<"jung","gu">>, <<"seong","dong","gu">>, <<"dong","dae","mun","gu">>, <<"seong","buk","gu">>>>>>,
    <<<<"jung","gu">>, <<<<"jong","ro","gu">>, <<"seo","dae","mun","gu">>, <<"yong","san","gu">>, <<"seong","dong","gu">>, <<"dong","dae","mun","gu">>>>>>,
    <<<<"jung","rang","gu">>, <<<<"no","won","gu">>, <<"gwang","jin","gu">>, <<"dong","dae","mun","gu">>, <<"seong","buk","gu">>, <<"gang","buk","gu">>>>>>
  >>

GYEONGGI_DISTRICT_NEIGHBORS ==
  <<
    <<<<"yeon","cheon","gun">>, <<<<"po","cheon","si">>, <<"cheol","won","gun">>, <<"pa","ju","si">>>>>>,
    <<<<"po","cheon","si">>, <<<<"yeon","cheon","gun">>, <<"ga","pyeong","gun">>, <<"nam","yang","ju","si">>, <<"ui","jeong","bu","si">>, <<"dong","du","cheon","si">>, <<"cheol","won","gun">>>>>>,
    <<<<"ga","pyeong","gun">>, <<<<"po","cheon","si">>, <<"nam","yang","ju","si">>, <<"yang","pyeong","gun">>, <<"chun","cheon","si">>>>>>,
    <<<<"pa","ju","si">>, <<<<"yeon","cheon","gun">>, <<"go","yang","si">>, <<"gim","po","si">>, <<"gae","seong","si">>>>>>,
    <<<<"dong","du","cheon","si">>, <<<<"po","cheon","si">>, <<"yang","ju","si">>, <<"ui","jeong","bu","si">>>>>>,
    <<<<"yang","ju","si">>, <<<<"dong","du","cheon","si">>, <<"ui","jeong","bu","si">>, <<"gu","ri","si">>, <<"nam","yang","ju","si">>>>>>,
    <<<<"ui","jeong","bu","si">>, <<<<"dong","du","cheon","si">>, <<"yang","ju","si">>, <<"gu","ri","si">>, <<"po","cheon","si">>>>>>,
    <<<<"go","yang","si">>, <<<<"pa","ju","si">>, <<"gim","po","si">>, <<"bu","cheon","si">>, <<"seo","ul","teuk","byeol","si">>>>>>,
    <<<<"gim","po","si">>, <<<<"pa","ju","si">>, <<"go","yang","si">>, <<"bu","cheon","si">>, <<"in","cheon","gwang","yeok","si">>>>>>,
    <<<<"bu","cheon","si">>, <<<<"go","yang","si">>, <<"gim","po","si">>, <<"gwang","myeong","si">>, <<"seo","ul","teuk","byeol","si">>, <<"in","cheon","gwang","yeok","si">>>>>>,
    <<<<"gu","ri","si">>, <<<<"yang","ju","si">>, <<"ui","jeong","bu","si">>, <<"nam","yang","ju","si">>, <<"ha","nam","si">>, <<"seo","ul","teuk","byeol","si">>>>>>,
    <<<<"nam","yang","ju","si">>, <<<<"po","cheon","si">>, <<"ga","pyeong","gun">>, <<"yang","ju","si">>, <<"gu","ri","si">>, <<"ha","nam","si">>, <<"yang","pyeong","gun">>>>>>,
    <<<<"ha","nam","si">>, <<<<"gu","ri","si">>, <<"nam","yang","ju","si">>, <<"gwang","ju","si">>, <<"seong","nam","si">>, <<"seo","ul","teuk","byeol","si">>>>>>,
    <<<<"yang","pyeong","gun">>, <<<<"ga","pyeong","gun">>, <<"nam","yang","ju","si">>, <<"ha","nam","si">>, <<"gwang","ju","si">>, <<"yeo","ju","si">>, <<"won","ju","si">>>>>>,
    <<<<"gwang","ju","si">>, <<<<"ha","nam","si">>, <<"yang","pyeong","gun">>, <<"yeo","ju","si">>, <<"yong","in","si">>, <<"seong","nam","si">>>>>>,
    <<<<"yeo","ju","si">>, <<<<"yang","pyeong","gun">>, <<"gwang","ju","si">>, <<"i","cheon","si">>, <<"won","ju","si">>, <<"chung","ju","si">>>>>>,
    <<<<"gwang","myeong","si">>, <<<<"bu","cheon","si">>, <<"si","heung","si">>, <<"an","yang","si">>, <<"seo","ul","teuk","byeol","si">>>>>>,
    <<<<"si","heung","si">>, <<<<"gwang","myeong","si">>, <<"an","yang","si">>, <<"gun","po","si">>, <<"an","san","si">>, <<"in","cheon","gwang","yeok","si">>>>>>,
    <<<<"an","yang","si">>, <<<<"gwang","myeong","si">>, <<"si","heung","si">>, <<"gun","po","si">>, <<"ui","wang","si">>, <<"gwa","cheon","si">>, <<"seo","ul","teuk","byeol","si">>>>>>,
    <<<<"gun","po","si">>, <<<<"si","heung","si">>, <<"an","yang","si">>, <<"ui","wang","si">>, <<"an","san","si">>, <<"su","won","si">>>>>>,
    <<<<"ui","wang","si">>, <<<<"an","yang","si">>, <<"gun","po","si">>, <<"su","won","si">>, <<"gwa","cheon","si">>, <<"seong","nam","si">>>>>>,
    <<<<"gwa","cheon","si">>, <<<<"an","yang","si">>, <<"ui","wang","si">>, <<"seong","nam","si">>, <<"seo","ul","teuk","byeol","si">>>>>>,
    <<<<"an","san","si">>, <<<<"si","heung","si">>, <<"gun","po","si">>, <<"su","won","si">>, <<"hwa","seong","si">>, <<"in","cheon","gwang","yeok","si">>>>>>,
    <<<<"seong","nam","si">>, <<<<"ha","nam","si">>, <<"gwang","ju","si">>, <<"yong","in","si">>, <<"ui","wang","si">>, <<"gwa","cheon","si">>, <<"seo","ul","teuk","byeol","si">>>>>>,
    <<<<"yong","in","si">>, <<<<"gwang","ju","si">>, <<"seong","nam","si">>, <<"su","won","si">>, <<"hwa","seong","si">>, <<"i","cheon","si">>, <<"an","seong","si">>>>>>,
    <<<<"su","won","si">>, <<<<"gun","po","si">>, <<"ui","wang","si">>, <<"an","san","si">>, <<"hwa","seong","si">>, <<"yong","in","si">>, <<"o","san","si">>>>>>,
    <<<<"hwa","seong","si">>, <<<<"an","san","si">>, <<"su","won","si">>, <<"yong","in","si">>, <<"o","san","si">>, <<"pyeong","taek","si">>, <<"an","seong","si">>>>>>,
    <<<<"o","san","si">>, <<<<"su","won","si">>, <<"hwa","seong","si">>, <<"pyeong","taek","si">>>>>>,
    <<<<"pyeong","taek","si">>, <<<<"hwa","seong","si">>, <<"o","san","si">>, <<"an","seong","si">>, <<"a","san","si">>, <<"cheon","an","si">>>>>>,
    <<<<"an","seong","si">>, <<<<"yong","in","si">>, <<"hwa","seong","si">>, <<"pyeong","taek","si">>, <<"i","cheon","si">>, <<"cheon","an","si">>, <<"eum","seong","gun">>>>>>,
    <<<<"i","cheon","si">>, <<<<"gwang","ju","si">>, <<"yeo","ju","si">>, <<"yong","in","si">>, <<"an","seong","si">>, <<"chung","ju","si">>, <<"eum","seong","gun">>>>>>
  >>

ICH_DISTRICT_NEIGHBORS ==
  <<
    <<<<"jung","gu">>, <<<<"dong","gu">>, <<"mi","chu","hol","gu">>, <<"seo","gu">>>>>>,
    <<<<"dong","gu">>, <<<<"jung","gu">>, <<"mi","chu","hol","gu">>>>>>,
    <<<<"mi","chu","hol","gu">>, <<<<"jung","gu">>, <<"dong","gu">>, <<"nam","dong","gu">>, <<"bu","pyeong","gu">>, <<"seo","gu">>>>>>,
    <<<<"yeon","su","gu">>, <<<<"nam","dong","gu">>, <<"seo","gu">>>>>>,
    <<<<"nam","dong","gu">>, <<<<"mi","chu","hol","gu">>, <<"yeon","su","gu">>, <<"bu","pyeong","gu">>>>>>,
    <<<<"bu","pyeong","gu">>, <<<<"mi","chu","hol","gu">>, <<"nam","dong","gu">>, <<"gye","yang","gu">>, <<"seo","gu">>>>>>,
    <<<<"gye","yang","gu">>, <<<<"bu","pyeong","gu">>, <<"seo","gu">>>>>>,
    <<<<"seo","gu">>, <<<<"jung","gu">>, <<"mi","chu","hol","gu">>, <<"bu","pyeong","gu">>, <<"gye","yang","gu">>, <<"yeon","su","gu">>>>>>,
    <<<<"gang","hwa","gun">>, <<>>>>,
    <<<<"ong","jin","gun">>, <<>>>>
  >>

BUSAN_DISTRICT_NEIGHBORS ==
  <<
    <<<<"jung","gu">>, <<<<"dong","gu">>, <<"seo","gu">>, <<"yeong","do","gu">>, <<"bu","san","jin","gu">>, <<"nam","gu">>>>>>,
    <<<<"seo","gu">>, <<<<"jung","gu">>, <<"dong","gu">>, <<"sa","ha","gu">>, <<"yeong","do","gu">>>>>>,
    <<<<"dong","gu">>, <<<<"jung","gu">>, <<"seo","gu">>, <<"bu","san","jin","gu">>, <<"nam","gu">>>>>>,
    <<<<"yeong","do","gu">>, <<<<"jung","gu">>, <<"seo","gu">>, <<"nam","gu">>, <<"sa","ha","gu">>>>>>,
    <<<<"bu","san","jin","gu">>, <<<<"jung","gu">>, <<"dong","gu">>, <<"nam","gu">>, <<"yeon","je","gu">>, <<"dong","rae","gu">>, <<"buk","gu">>, <<"sa","sang","gu">>>>>>,
    <<<<"dong","rae","gu">>, <<<<"bu","san","jin","gu">>, <<"yeon","je","gu">>, <<"geum","jeong","gu">>, <<"buk","gu">>, <<"hae","un","dae","gu">>>>>>,
    <<<<"nam","gu">>, <<<<"jung","gu">>, <<"dong","gu">>, <<"yeong","do","gu">>, <<"bu","san","jin","gu">>, <<"yeon","je","gu">>, <<"su","yeong","gu">>, <<"hae","un","dae","gu">>>>>>,
    <<<<"buk","gu">>, <<<<"bu","san","jin","gu">>, <<"dong","rae","gu">>, <<"geum","jeong","gu">>, <<"sa","sang","gu">>, <<"gang","seo","gu">>>>>>,
    <<<<"hae","un","dae","gu">>, <<<<"dong","rae","gu">>, <<"nam","gu">>, <<"su","yeong","gu">>, <<"geum","jeong","gu">>, <<"gi","jang","gun">>>>>>,
    <<<<"sa","ha","gu">>, <<<<"seo","gu">>, <<"yeong","do","gu">>, <<"sa","sang","gu">>, <<"gang","seo","gu">>>>>>,
    <<<<"geum","jeong","gu">>, <<<<"dong","rae","gu">>, <<"buk","gu">>, <<"hae","un","dae","gu">>, <<"gi","jang","gun">>>>>>,
    <<<<"gang","seo","gu">>, <<<<"buk","gu">>, <<"sa","ha","gu">>, <<"sa","sang","gu">>>>>>,
    <<<<"yeon","je","gu">>, <<<<"bu","san","jin","gu">>, <<"dong","rae","gu">>, <<"nam","gu">>, <<"su","yeong","gu">>>>>>,
    <<<<"su","yeong","gu">>, <<<<"nam","gu">>, <<"yeon","je","gu">>, <<"hae","un","dae","gu">>>>>>,
    <<<<"sa","sang","gu">>, <<<<"bu","san","jin","gu">>, <<"buk","gu">>, <<"sa","ha","gu">>, <<"gang","seo","gu">>>>>>,
    <<<<"gi","jang","gun">>, <<<<"hae","un","dae","gu">>, <<"geum","jeong","gu">>>>>>
  >>

GYEONGBUK_DISTRICT_NEIGHBORS ==
  <<
    <<<<"po","hang","si">>, <<<<"gyeong","ju","si">>, <<"yeong","deok","gun">>, <<"cheong","song","gun">>, <<"yeong","cheon","si">>, <<"ul","san","gwang","yeok","si">>>>>>,
    <<<<"gyeong","ju","si">>, <<<<"po","hang","si">>, <<"yeong","cheon","si">>, <<"cheong","do","gun">>, <<"ul","san","gwang","yeok","si">>, <<"mil","yang","si">>>>>>,
    <<<<"gim","cheon","si">>, <<<<"gu","mi","si">>, <<"chil","gok","gun">>, <<"seong","ju","gun">>, <<"geo","chang","gun">>, <<"mu","ju","gun">>, <<"yeong","dong","gun">>>>>>,
    <<<<"an","dong","si">>, <<<<"yeong","ju","si">>, <<"ye","cheon","gun">>, <<"ui","seong","gun">>, <<"cheong","song","gun">>, <<"yeong","yang","gun">>, <<"bong","hwa","gun">>>>>>,
    <<<<"gu","mi","si">>, <<<<"gim","cheon","si">>, <<"chil","gok","gun">>, <<"gun","wi","gun">>, <<"ui","seong","gun">>, <<"sang","ju","si">>>>>>,
    <<<<"yeong","ju","si">>, <<<<"an","dong","si">>, <<"bong","hwa","gun">>, <<"ye","cheon","gun">>, <<"mun","gyeong","si">>, <<"dan","yang","gun">>, <<"yeong","wol","gun">>>>>>,
    <<<<"yeong","cheon","si">>, <<<<"po","hang","si">>, <<"gyeong","ju","si">>, <<"cheong","do","gun">>, <<"dae","gu","gwang","yeok","si">>, <<"gyeong","san","si">>, <<"gun","wi","gun">>, <<"cheong","song","gun">>>>>>,
    <<<<"sang","ju","si">>, <<<<"gu","mi","si">>, <<"ui","seong","gun">>, <<"ye","cheon","gun">>, <<"mun","gyeong","si">>, <<"bo","eun","gun">>, <<"ok","cheon","gun">>>>>>,
    <<<<"mun","gyeong","si">>, <<<<"yeong","ju","si">>, <<"ye","cheon","gun">>, <<"sang","ju","si">>, <<"chung","ju","si">>, <<"je","cheon","si">>, <<"dan","yang","gun">>>>>>,
    <<<<"gyeong","san","si">>, <<<<"yeong","cheon","si">>, <<"cheong","do","gun">>, <<"dae","gu","gwang","yeok","si">>>>>>,
    <<<<"gun","wi","gun">>, <<<<"gu","mi","si">>, <<"ui","seong","gun">>, <<"yeong","cheon","si">>, <<"dae","gu","gwang","yeok","si">>>>>>,
    <<<<"ui","seong","gun">>, <<<<"an","dong","si">>, <<"gu","mi","si">>, <<"gun","wi","gun">>, <<"sang","ju","si">>, <<"ye","cheon","gun">>, <<"cheong","song","gun">>>>>>,
    <<<<"cheong","song","gun">>, <<<<"an","dong","si">>, <<"po","hang","si">>, <<"yeong","cheon","si">>, <<"ui","seong","gun">>, <<"yeong","yang","gun">>, <<"yeong","deok","gun">>>>>>,
    <<<<"yeong","yang","gun">>, <<<<"an","dong","si">>, <<"cheong","song","gun">>, <<"yeong","deok","gun">>, <<"ul","jin","gun">>, <<"bong","hwa","gun">>>>>>,
    <<<<"yeong","deok","gun">>, <<<<"po","hang","si">>, <<"cheong","song","gun">>, <<"yeong","yang","gun">>, <<"ul","jin","gun">>>>>>,
    <<<<"cheong","do","gun">>, <<<<"gyeong","ju","si">>, <<"yeong","cheon","si">>, <<"gyeong","san","si">>, <<"dae","gu","gwang","yeok","si">>, <<"mil","yang","si">>, <<"chang","nyeong","gun">>>>>>,
    <<<<"go","ryeong","gun">>, <<<<"dae","gu","gwang","yeok","si">>, <<"seong","ju","gun">>, <<"hap","cheon","gun">>, <<"chang","nyeong","gun">>>>>>,
    <<<<"seong","ju","gun">>, <<<<"gim","cheon","si">>, <<"chil","gok","gun">>, <<"go","ryeong","gun">>, <<"hap","cheon","gun">>, <<"geo","chang","gun">>>>>>,
    <<<<"chil","gok","gun">>, <<<<"gim","cheon","si">>, <<"gu","mi","si">>, <<"seong","ju","gun">>, <<"dae","gu","gwang","yeok","si">>>>>>,
    <<<<"ye","cheon","gun">>, <<<<"an","dong","si">>, <<"yeong","ju","si">>, <<"sang","ju","si">>, <<"mun","gyeong","si">>, <<"ui","seong","gun">>>>>>,
    <<<<"bong","hwa","gun">>, <<<<"an","dong","si">>, <<"yeong","ju","si">>, <<"yeong","yang","gun">>, <<"ul","jin","gun">>, <<"tae","baek","si">>, <<"sam","cheok","si">>>>>>,
    <<<<"ul","jin","gun">>, <<<<"yeong","yang","gun">>, <<"yeong","deok","gun">>, <<"bong","hwa","gun">>, <<"sam","cheok","si">>>>>>,
    <<<<"ul","reung","gun">>, <<>>>>
  >>

\* d.keys(), key in d, d[key] on a table
Keys(table) == [i \in 1..Len(table) |-> table[i][1]]
HasKey(table, d) == \E i \in 1..Len(table) : table[i][1] = d
Lookup(table, d) == table[CHOOSE i \in 1..Len(table) : table[i][1] = d][2]

SeoulCity     == <<"seo","ul","teuk","byeol","si">>
GyeonggiCity  == <<"gyeong","gi","do">>
IncheonCity   == <<"in","cheon","gwang","yeok","si">>
BusanCity     == <<"bu","san","gwang","yeok","si">>
GyeongbukCity == <<"gyeong","sang","buk","do">>

\* The city blocks in the order _extract_unified_district adds them.
CityBlocks ==
  << <<SeoulCity, SEOUL_DISTRICT_NEIGHBORS>>,
     <<GyeonggiCity, GYEONGGI_DISTRICT_NEIGHBORS>>,
     <<IncheonCity, ICH_DISTRICT_NEIGHBORS>>,
     <<BusanCity, BUSAN_DISTRICT_NEIGHBORS>>,
     <<GyeongbukCity, GYEONGBUK_DISTRICT_NEIGHBORS>> >>

\* all_districts: every key of every block appended in order; a name that
\* is declared in several cities appears once per city.
all_districts ==
  Keys(SEOUL_DISTRICT_NEIGHBORS) \o Keys(GYEONGGI_DISTRICT_NEIGHBORS)
    \o Keys(ICH_DISTRICT_NEIGHBORS) \o Keys(BUSAN_DISTRICT_NEIGHBORS)
    \o Keys(GYEONGBUK_DISTRICT_NEIGHBORS)

\* district_to_city[d]: the dict is assigned block after block, so a name
\* declared in several cities keeps the city of the last block declaring it.
district_to_city(d) ==
  LET B == {i \in 1..Len(CityBlocks) : HasKey(CityBlocks[i][2], d)}
  IN  CityBlocks[CHOOSE i \in B : \A j \in B : j <= i][1]

InAllDistricts(d) == \E i \in 1..Len(all_districts) : all_districts[i] = d

\* city_keywords, in dict order
city_keywords ==
  << << <<"bu","san">>,   BusanCity >>,
     << <<"seo","ul">>,   SeoulCity >>,
     << <<"in","cheon">>, IncheonCity >>,
     << <<"dae","gu">>,   <<"dae","gu","gwang","yeok","si">> >>,
     << <<"gwang","ju">>, <<"gwang","ju","gwang","yeok","si">> >>,
     << <<"dae","jeon">>, <<"dae","jeon","gwang","yeok","si">> >>,
     << <<"ul","san">>,   <<"ul","san","gwang","yeok","si">> >> >>

\* detected_city: the city of the first keyword, in dict order, found in
\* the query; None if there is none.
DetectedCity(query) ==
  LET K == {i \in 1..Len(city_keywords) : Contains(query, city_keywords[i][1])}
  IN  IF K = {} THEN Null
      ELSE city_keywords[CHOOSE i \in K : \A j \in K : i <= j][2]

\* city_districts = [d for d, city in district_to_city.items() if city == c]
CityDistricts(c) ==
  LET InCity(d) == district_to_city(d) = c
  IN  SelectSeq(all_districts, InCity)

\* Step 2 of the extractor: the first name of all_districts, in list order,
\* that is a substring of the query, with the city district_to_city gives.
DirectMatch(query) ==
  LET H == {i \in 1..Len(all_districts) : Contains(query, all_districts[i])}
  IN  IF H = {} THEN Null
      ELSE LET d == all_districts[CHOOSE i \in H : \A j \in H : i <= j]
           IN  Join2(district_to_city(d), d)

\* Step 3: the patterns \w+gu, \w+si, \w+gun in turn; the first match that is
\* a known name wins.
RegexMatch(query) ==
  LET ms == SuffixMatches(query, "gu") \o SuffixMatches(query, "si")
              \o SuffixMatches(query, "gun")
      K  == {i \in 1..Len(ms) : InAllDistricts(ms[i])}
  IN  IF K = {} THEN Null
      ELSE LET m == ms[CHOOSE i \in K : \A j \in K : i <= j]
           IN  Join2(district_to_city(m), m)

\* Step 5's candidate words: at least two syllables, none of the stop words
\* as a substring.
exclude_words ==
  << <<"il","ja","ri">>, <<"bok","ji">>, <<"peu","ro","geu","raem">>,
     <<"mun","hwa">>, <<"sen","teo">>, <<"si","seol">>, <<"byeong","won">>,
     <<"hak","gyo">>, <<"ma","teu">> >>
LocationWords(query) ==
  LET Keep(w) == Len(w) >= 2
                 /\ \A i \in 1..Len(exclude_words) : ~Contains(w, exclude_words[i])
  IN  SelectSeq(Split(query), Keep)

\* A model reply to one of the extractor's prompts, after the source's
\* re.search/json.loads: the call raised, the text held no JSON object, or
\* it held one with these "city" and "district" values (None when absent).
RaiseReply  == [kind |-> "raise",  city |-> Null, district |-> Null]
NoJsonReply == [kind |-> "nojson", city |-> Null, district |-> Null]
JsonReply(c, d) == [kind |-> "json", city |-> c, district |-> d]

\* A faulty variant: the region of the reply is not looked up.
AcceptAnyDistrict(r) ==
  r.kind = "json" /\ Truthy(r.city) /\ Truthy(r.district)

\* `if result.get('city') and result.get('district')` and
\* `if district in all_districts`
AcceptCityDistrict(r) ==
  r.kind = "json" /\ Truthy(r.city) /\ Truthy(r.district)
  /\ InAllDistricts(r.district)

\* What _extract_unified_district reads off the query before and between
\* its model calls: the detected city and its districts, the dong tokens,
\* the direct and the regular-expression match, the candidate words.
QueryScan(query) ==
  LET city == DetectedCity(query)
  IN  [city   |-> city,
       cds    |-> IF city = Null THEN <<>> ELSE CityDistricts(city),
       dongs  |-> SuffixMatches(query, "dong"),
       direct |-> DirectMatch(query),
       regex  |-> RegexMatch(query),
       words  |-> LocationWords(query)]

\* The model calls the extractor can make for a query: the city-and-dong
\* prompt before the direct match, then steps 4, 5 and 6.
CallsCityDong(scan, gem) ==
  scan.city # Null /\ scan.dongs # <<>> /\ gem /\ scan.cds # <<>>
CallsDong(scan, gem)  == scan.dongs # <<>> /\ gem
CallsWords(scan, gem) == gem /\ scan.words # <<>>

\* _extract_unified_district(query): the text "city district" or None, the
\* step that produced it and the model calls made on the way.  r0 is the
\* reply to the city-and-dong prompt, r4, r5, r6 those to steps 4, 5 and 6.
ExtractUnified(scan, gem, r0, r4, r5, r6) ==
  LET call0 == CallsCityDong(scan, gem)
      ok0   == call0 /\ r0.kind = "json" /\ Truthy(r0.district)
               /\ \E i \in 1..Len(scan.cds) : scan.cds[i] = r0.district
      c0    == IF call0 THEN <<"extract_city_dong">> ELSE <<>>
      call4 == CallsDong(scan, gem)
      c4    == c0 \o (IF call4 THEN <<"extract_dong">> ELSE <<>>)
      call5 == CallsWords(scan, gem)
      c5    == c4 \o (IF call5 THEN <<"extract_words">> ELSE <<>>)
      c6    == c5 \o (IF gem THEN <<"extract_whole">> ELSE <<>>)
  IN  IF ok0 THEN
        [result |-> Join2(scan.city, r0.district), tier |-> "city_dong", calls |-> c0]
      ELSE IF scan.direct # Null THEN
        [result |-> scan.direct, tier |-> "direct", calls |-> c0]
      ELSE IF scan.regex # Null THEN
        [result |-> scan.regex, tier |-> "regex", calls |-> c0]
      ELSE IF call4 /\ AcceptCityDistrict(r4) THEN
        [result |-> Join2(r4.city, r4.district), tier |-> "dong", calls |-> c4]
      ELSE IF call5 /\ AcceptCityDistrict(r5) THEN
        [result |-> Join2(r5.city, r5.district), tier |-> "words", calls |-> c5]
      ELSE IF gem /\ AcceptCityDistrict(r6) THEN
        [result |-> Join2(r6.city, r6.district), tier |-> "whole", calls |-> c6]
      ELSE
        [result |-> Null, tier |-> "none", calls |-> c6]

(***************************************************************************)
(* Namespaces.  A key is a sequence of tokens: "seoul_job" is               *)
(* <<"seoul","_","job">>, so that f"{city_prefix}_{category}" and           *)
(* startswith() are computed.                                               *)
(***************************************************************************)
Key(prefix, category) == <<prefix, "_">> \o category
PublicHealthCenter == <<"public_health_center">>
Workout == <<"workout">>

\* The keys of NAMESPACE_INFO, in declaration order.
NAMESPACE_INFO ==
  << Key("seoul", <<"job">>), Key("seoul", <<"culture">>), Key("seoul", <<"facility">>),
     Key("kk", <<"job">>),    Key("kk", <<"culture">>),    Key("kk", <<"facility">>),
     Key("ich", <<"job">>),   Key("ich", <<"culture">>),   Key("ich", <<"facility">>),
     Key("bs", <<"job">>),    Key("bs", <<"culture">>),    Key("bs", <<"facility">>),
     Key("kb", <<"job">>),    Key("kb", <<"culture">>),    Key("kb", <<"facility">>),
     PublicHealthCenter, Workout >>
InCatalog(ns) == \E i \in 1..Len(NAMESPACE_INFO) : NAMESPACE_INFO[i] = ns

\* The module-level data every request reads: the five adjacency tables, in
\* the order of CityBlocks, and the namespace catalog.
Shared ==
  [adjacency |-> [i \in 1..Len(CityBlocks) |-> CityBlocks[i][2]],
   catalog   |-> NAMESPACE_INFO]

is_seoul_namespace(ns)     == Truthy(ns) /\ StartsWith(ns, <<"seoul">>)
is_gyeonggi_namespace(ns)  == Truthy(ns) /\ StartsWith(ns, <<"kk">>)
is_incheon_namespace(ns)   == Truthy(ns) /\ StartsWith(ns, <<"ich">>)
is_busan_namespace(ns)     == Truthy(ns) /\ StartsWith(ns, <<"bs">>)
is_gyeongbuk_namespace(ns) == Truthy(ns) /\ StartsWith(ns, <<"kb">>)

(***************************************************************************)
(* Namespace classifier.  A confidence is a percentage (0.3 is 30);        *)
(* Missing stands for a reply without a "confidence" field.                *)
(***************************************************************************)
Missing == -1
ClampPercent == 30
FastPathPercent == 95
CategoryDefaultPercent == 80
CategoryTextPercent == 70

\* result.get('confidence', 0)
ConfOrZero(c) == IF c = Missing THEN 0 ELSE c

\* The clamp of select_namespace: `if result.get('confidence', 0) < 0.3:
\* result['namespace'] = None`.
Clamp(ns, conf) == IF ConfOrZero(conf) < ClampPercent THEN Null ELSE ns

\* A faulty variant: an object embedded in other text is not recovered.
SelectNamespaceStrictOnly(gem, r) ==
  IF ~gem THEN
    [namespace |-> Null, confidence |-> 0, reasoning |-> "not_initialized", calls |-> <<>>]
  ELSE IF r.kind = "json" THEN
    [namespace |-> Clamp(r.namespace, r.confidence), confidence |-> r.confidence,
     reasoning |-> "model", calls |-> <<"select_namespace">>]
  ELSE
    [namespace |-> Null, confidence |-> 0, reasoning |-> "parse_failed",
     calls |-> <<"select_namespace">>]

\* select_namespace(query).  The reply r is the model's answer after
\* parsing: kind "json" (json.loads succeeded), "embedded" (an object was
\* recovered by the regular expression), "nojson" or "raise".
select_namespace(gem, r) ==
  IF ~gem THEN
    [namespace |-> Null, confidence |-> 0, reasoning |-> "not_initialized", calls |-> <<>>]
  ELSE IF r.kind \in {"json", "embedded"} THEN
    [namespace |-> Clamp(r.namespace, r.confidence), confidence |-> r.confidence,
     reasoning |-> "model", calls |-> <<"select_namespace">>]
  ELSE IF r.kind = "nojson" THEN
    [namespace |-> Null, confidence |-> 0, reasoning |-> "parse_failed",
     calls |-> <<"select_namespace">>]
  ELSE
    [namespace |-> Null, confidence |-> 0, reasoning |-> "api_error",
     calls |-> <<"select_namespace">>]

\* A faulty variant: every resolved location is taken for a Gyeonggi one.
CityPrefixGyeonggi(loc) == "kk"
\* The city prefix select_namespace_with_location derives from the text of
\* the extracted location; None when no known city name is in it.
CityPrefix(loc) ==
  IF Contains(loc, SeoulCity) THEN "seoul"
  ELSE IF Contains(loc, GyeonggiCity) THEN "kk"
  ELSE IF Contains(loc, IncheonCity) THEN "ich"
  ELSE IF Contains(loc, BusanCity) THEN "bs"
  ELSE IF Contains(loc, GyeongbukCity) THEN "kb"
  ELSE "none"

\* select_namespace_with_location(query, extracted_location).  rc is the
\* reply to the category prompt: kind "json" with a category (None when
\* absent) and a confidence, kind "nojson" with the category the keyword
\* scan of the text finds (None when none), or "raise"; rn is the reply
\* select_namespace gets when the function falls back to it.
select_namespace_with_location(loc, gem, rc, rn) ==
  LET prefix == CityPrefix(loc)
      fall   == select_namespace(gem, rn)
      after  == [fall EXCEPT !.calls = <<"select_category">> \o fall.calls]
      ns     == Key(prefix, rc.category)
  IN  IF prefix = "none" THEN fall
      ELSE IF ~gem THEN
        [namespace |-> Null, confidence |-> 0, reasoning |-> "not_initialized",
         calls |-> <<>>]
      ELSE IF rc.kind = "json" /\ Truthy(rc.category) /\ InCatalog(ns) THEN
        [namespace |-> ns,
         confidence |-> IF rc.confidence = Missing THEN CategoryDefaultPercent
                        ELSE rc.confidence,
         reasoning |-> "category", calls |-> <<"select_category">>]
      ELSE IF rc.kind = "nojson" /\ Truthy(rc.category) /\ InCatalog(ns) THEN
        [namespace |-> ns, confidence |-> CategoryTextPercent,
         reasoning |-> "category", calls |-> <<"select_category">>]
      ELSE after

workout_keywords ==
  << <<"un","dong">>, <<"seu","teu","re","ching">>, <<"yo","ga">>,
     <<"pil","ra","te","seu">>, <<"hom","teu">>, <<"hom","teu","re","i","ning">>,
     <<"tong","jeung">>, <<"jae","hwal">>, <<"mul","ri","chi","ryo">>,
     <<"ja","se","gyo","jeong">>, <<"ko","eo">>, <<"da","i","eo","teu">>,
     <<"che","jung","gam","ryang">>, <<"che","ji","bang">>, <<"geun","yuk">>,
     <<"che","ryeok">>, <<"heo","ri">>, <<"eo","kkae">>, <<"mok">>,
     <<"mu","reuph">>, <<"bal","mok">>, <<"son","mok">>, <<"un","dong","beop">>,
     <<"un","dong","bang","beop">>, <<"un","dong","chu","cheon">>,
     <<"un","dong","yeong","sang">> >>

\* A faulty variant: the eye-examination keyword routes a query without a
\* location to the health centers (the block the source keeps commented out).
SelectWithoutLocationEyeHealth(query) ==
  IF Contains(query, <<"nun"," ","geom","sa">>)
    THEN [namespace |-> PublicHealthCenter, confidence |-> FastPathPercent,
          reasoning |-> "keyword", calls |-> <<>>]
    ELSE [namespace |-> Null, confidence |-> 0, reasoning |-> "no_category",
          calls |-> <<>>]
\* select_namespace_without_location(query): the keyword fast path, no
\* model call.  (Hangul has no case: query.lower() is the query.)
select_namespace_without_location(query) ==
  IF \E i \in 1..Len(workout_keywords) : Contains(query, workout_keywords[i])
    THEN [namespace |-> Workout, confidence |-> FastPathPercent,
          reasoning |-> "keyword", calls |-> <<>>]
    ELSE [namespace |-> Null, confidence |-> 0, reasoning |-> "no_category",
          calls |-> <<>>]

(***************************************************************************)
(* Scope expander.                                                         *)
(***************************************************************************)
SeoulPopular     == << <<"gang","nam","gu">>, <<"seo","cho","gu">>, <<"jong","ro","gu">> >>
GyeonggiPopular  == << <<"su","won","si">>, <<"seong","nam","si">>, <<"go","yang","si">> >>
IncheonPopular   == << <<"nam","dong","gu">>, <<"bu","pyeong","gu">>, <<"yeon","su","gu">> >>
BusanPopular     == << <<"hae","un","dae","gu">>, <<"bu","san","jin","gu">>, <<"nam","gu">> >>
GyeongbukPopular == << <<"po","hang","si">>, <<"gyeong","ju","si">>, <<"an","dong","si">> >>

\* `not district or district not in TABLE`
Unknown(table, district) == ~Truthy(district) \/ ~HasKey(table, district)

\* A faulty variant: the declared list is not cut to the limit.
SeoulNearbyUncut(district, max_neighbors) ==
  IF Unknown(SEOUL_DISTRICT_NEIGHBORS, district) THEN SeoulPopular
  ELSE <<district>> \o Lookup(SEOUL_DISTRICT_NEIGHBORS, district)
_get_seoul_nearby_districts(district, max_neighbors) ==
  IF Unknown(SEOUL_DISTRICT_NEIGHBORS, district) THEN SeoulPopular
  ELSE <<district>> \o Take(Lookup(SEOUL_DISTRICT_NEIGHBORS, district), max_neighbors)

_get_gyeonggi_nearby_districts(district, max_neighbors) ==
  IF Unknown(GYEONGGI_DISTRICT_NEIGHBORS, district) THEN GyeonggiPopular
  ELSE <<district>> \o Take(Lookup(GYEONGGI_DISTRICT_NEIGHBORS, district), max_neighbors)

\* A faulty variant: no fallback for the island counties.
IncheonNearbyNoFallback(district, max_neighbors) ==
  IF Unknown(ICH_DISTRICT_NEIGHBORS, district) THEN IncheonPopular
  ELSE <<district>> \o Take(Lookup(ICH_DISTRICT_NEIGHBORS, district), max_neighbors)
_get_incheon_nearby_districts(district, max_neighbors) ==
  IF Unknown(ICH_DISTRICT_NEIGHBORS, district) THEN IncheonPopular
  ELSE LET neighbors == Take(Lookup(ICH_DISTRICT_NEIGHBORS, district), max_neighbors)
       IN  IF neighbors = <<>>
             THEN <<district>> \o Take(IncheonPopular, max_neighbors)
             ELSE <<district>> \o neighbors

\* A faulty variant: no default for a region missing from the table.
BusanNearbyNoDefault(district, max_neighbors) ==
  IF Unknown(BUSAN_DISTRICT_NEIGHBORS, district) THEN <<>>
  ELSE <<district>> \o Take(Lookup(BUSAN_DISTRICT_NEIGHBORS, district), max_neighbors)
_get_busan_nearby_districts(district, max_neighbors) ==
  IF Unknown(BUSAN_DISTRICT_NEIGHBORS, district) THEN BusanPopular
  ELSE <<district>> \o Take(Lookup(BUSAN_DISTRICT_NEIGHBORS, district), max_neighbors)

_get_gyeongbuk_nearby_districts(district, max_neighbors) ==
  IF Unknown(GYEONGBUK_DISTRICT_NEIGHBORS, district) THEN GyeongbukPopular
  ELSE LET neighbors == Take(Lookup(GYEONGBUK_DISTRICT_NEIGHBORS, district), max_neighbors)
       IN  IF neighbors = <<>>
             THEN <<district>> \o Take(GyeongbukPopular, max_neighbors)
             ELSE <<district>> \o neighbors

get_nearby_districts(district, ns, max_neighbors) ==
  IF is_seoul_namespace(ns) THEN _get_seoul_nearby_districts(district, max_neighbors)
  ELSE IF is_gyeonggi_namespace(ns) THEN _get_gyeonggi_nearby_districts(district, max_neighbors)
  ELSE IF is_incheon_namespace(ns) THEN _get_incheon_nearby_districts(district, max_neighbors)
  ELSE IF is_busan_namespace(ns) THEN _get_busan_nearby_districts(district, max_neighbors)
  ELSE IF is_gyeongbuk_namespace(ns) THEN _get_gyeongbuk_nearby_districts(district, max_neighbors)
  ELSE <<>>

\* The enriched mode shared by the five _select_*_relevant_districts: the
\* model's reply r is "raise", "nojson" (json.loads failed, or the value is
\* not a list of strings) or "json" with the list r.names.  The names kept
\* are those that are keys of the city's table.
Enriched(table, target, max_neighbors, gem, r, default) ==
  LET IsKey(d) == HasKey(table, d)
      valid == IF gem /\ r.kind = "json" THEN SelectSeq(r.names, IsKey) ELSE <<>>
  IN  IF valid # <<>> THEN <<target>> \o Take(valid, max_neighbors) ELSE default

_select_seoul_relevant_districts(target, max_neighbors, gem, r) ==
  IF Unknown(SEOUL_DISTRICT_NEIGHBORS, target)
    THEN _get_seoul_nearby_districts(target, max_neighbors)
    ELSE Enriched(SEOUL_DISTRICT_NEIGHBORS, target, max_neighbors, gem, r,
                  _get_seoul_nearby_districts(target, max_neighbors))

_select_gyeonggi_relevant_districts(target, max_neighbors, gem, r) ==
  IF Unknown(GYEONGGI_DISTRICT_NEIGHBORS, target)
    THEN _get_gyeonggi_nearby_districts(target, max_neighbors)
    ELSE Enriched(GYEONGGI_DISTRICT_NEIGHBORS, target, max_neighbors, gem, r,
                  _get_gyeonggi_nearby_districts(target, max_neighbors))

_select_incheon_relevant_districts(target, max_neighbors, gem, r) ==
  IF Unknown(ICH_DISTRICT_NEIGHBORS, target)
    THEN _get_incheon_nearby_districts(target, max_neighbors)
  ELSE IF Lookup(ICH_DISTRICT_NEIGHBORS, target) = <<>>
    THEN <<target>> \o Take(IncheonPopular, max_neighbors)
    ELSE Enriched(ICH_DISTRICT_NEIGHBORS, target, max_neighbors, gem, r,
                  _get_incheon_nearby_districts(target, max_neighbors))

_select_busan_relevant_districts(target, max_neighbors, gem, r) ==
  IF Unknown(BUSAN_DISTRICT_NEIGHBORS, target)
    THEN _get_busan_nearby_districts(target, max_neighbors)
    ELSE Enriched(BUSAN_DISTRICT_NEIGHBORS, target, max_neighbors, gem, r,
                  _get_busan_nearby_districts(target, max_neighbors))

_select_gyeongbuk_relevant_districts(target, max_neighbors, gem, r) ==
  IF Unknown(GYEONGBUK_DISTRICT_NEIGHBORS, target)
    THEN _get_gyeongbuk_nearby_districts(target, max_neighbors)
  ELSE IF Lookup(GYEONGBUK_DISTRICT_NEIGHBORS, target) = <<>>
    THEN <<target>> \o Take(GyeongbukPopular, max_neighbors)
    ELSE Enriched(GYEONGBUK_DISTRICT_NEIGHBORS, target, max_neighbors, gem, r,
                  _get_gyeongbuk_nearby_districts(target, max_neighbors))

\* Whether select_relevant_nearby_districts puts a prompt to the model.
EnrichedCall(target, ns) ==
  \/ is_seoul_namespace(ns) /\ ~Unknown(SEOUL_DISTRICT_NEIGHBORS, target)
  \/ is_gyeonggi_namespace(ns) /\ ~Unknown(GYEONGGI_DISTRICT_NEIGHBORS, target)
  \/ is_incheon_namespace(ns) /\ ~Unknown(ICH_DISTRICT_NEIGHBORS, target)
       /\ Lookup(ICH_DISTRICT_NEIGHBORS, target) # <<>>
  \/ is_busan_namespace(ns) /\ ~Unknown(BUSAN_DISTRICT_NEIGHBORS, target)
  \/ is_gyeongbuk_namespace(ns) /\ ~Unknown(GYEONGBUK_DISTRICT_NEIGHBORS, target)
       /\ Lookup(GYEONGBUK_DISTRICT_NEIGHBORS, target) # <<>>

select_relevant_nearby_districts(target, ns, max_neighbors, gem, r) ==
  IF is_seoul_namespace(ns) THEN _select_seoul_relevant_districts(target, max_neighbors, gem, r)
  ELSE IF is_gyeonggi_namespace(ns) THEN _select_gyeonggi_relevant_districts(target, max_neighbors, gem, r)
  ELSE IF is_incheon_namespace(ns) THEN _select_incheon_relevant_districts(target, max_neighbors, gem, r)
  ELSE IF is_busan_namespace(ns) THEN _select_busan_relevant_districts(target, max_neighbors, gem, r)
  ELSE IF is_gyeongbuk_namespace(ns) THEN _select_gyeongbuk_relevant_districts(target, max_neighbors, gem, r)
  ELSE get_nearby_districts(target, ns, max_neighbors)

(***************************************************************************)
(* Region projection and the staged search of search_pinecone.             *)
(***************************************************************************)
SufficiencyThreshold == 8
top_k == 10
rerank_top_n == 8
max_neighbors == 3

\* extract_district_from_query(query, namespace), given the text (or None)
\* that _extract_unified_district returned.
extract_district_from_query(extracted_info, ns) ==
  IF ~Truthy(extracted_info) THEN Null
  ELSE IF ns = PublicHealthCenter THEN extracted_info
  ELSE IF is_seoul_namespace(ns) THEN
    IF Contains(extracted_info, SeoulCity)
      THEN RemoveAll(extracted_info, SeoulCity \o <<" ">>) ELSE Null
  ELSE IF is_gyeonggi_namespace(ns) THEN
    IF Contains(extracted_info, GyeonggiCity)
      THEN RemoveAll(extracted_info, GyeonggiCity \o <<" ">>) ELSE Null
  ELSE IF is_incheon_namespace(ns) THEN
    IF Contains(extracted_info, IncheonCity)
      THEN RemoveAll(extracted_info, IncheonCity \o <<" ">>) ELSE Null
  ELSE extracted_info

\* A faulty variant: the hint's city is not compared with the namespace's.
HintRegionAnyCity(ns, city, district) ==
  IF ns = PublicHealthCenter THEN Strip(Join2(city, district))
  ELSE IF is_seoul_namespace(ns) THEN Join2(SeoulCity, district)
  ELSE IF is_gyeonggi_namespace(ns) THEN Join2(GyeonggiCity, district)
  ELSE IF is_incheon_namespace(ns) THEN Join2(IncheonCity, district)
  ELSE IF is_busan_namespace(ns) THEN Join2(BusanCity, district)
  ELSE IF is_gyeongbuk_namespace(ns) THEN Join2(GyeongbukCity, district)
  ELSE Null
\* Lines 1605-1622: the caller's (city, district) hint, used only when the
\* query gave no region and both parts of the hint are non-empty.
HintRegion(ns, city, district) ==
  IF ns = PublicHealthCenter THEN Strip(Join2(city, district))
  ELSE IF is_seoul_namespace(ns) /\ Contains(city, <<"seo","ul">>)
    THEN Join2(SeoulCity, district)
  ELSE IF is_gyeonggi_namespace(ns) /\ Contains(city, <<"gyeong","gi">>)
    THEN Join2(GyeonggiCity, district)
  ELSE IF is_incheon_namespace(ns) /\ Contains(city, <<"in","cheon">>)
    THEN Join2(IncheonCity, district)
  ELSE IF is_busan_namespace(ns) /\ Contains(city, <<"bu","san">>)
    THEN Join2(BusanCity, district)
  ELSE IF is_gyeongbuk_namespace(ns)
          /\ (Contains(city, <<"gyeong","buk">>) \/ Contains(city, GyeongbukCity))
    THEN Join2(GyeongbukCity, district)
  ELSE Null

\* A faulty variant: the caller's hint is never used.
TargetFullIgnoresHint(from_query, ns, city, district) == from_query
TargetFull(from_query, ns, city, district) ==
  IF ~Truthy(from_query) /\ Truthy(city) /\ Truthy(district)
    THEN HintRegion(ns, city, district)
    ELSE from_query

\* Lines 1628-1635: the last blank-separated part of the full region text.
TargetDistrict(full) ==
  IF ~Truthy(full) THEN Null
  ELSE LET parts == Split(full)
       IN  IF Len(parts) >= 2 THEN parts[Len(parts)] ELSE full

\* One answer of the search collaborator: "hits" with n hits, "malformed" (a
\* payload without result.hits), "token_limit" (the reranker's input-size
\* error) or "error" (any other exception).
Outcome(kind, n) == [kind |-> kind, n |-> n]
HitCounts == {0, 3, 8, 10}
\* A reranked call returns at most top_n hits, a plain one at most top_k.
Outcomes(limit) ==
  {Outcome("hits", n) : n \in {m \in HitCounts : m <= limit}}
    \cup {Outcome("malformed", 0), Outcome("token_limit", 0), Outcome("error", 0)}
\* The answers to the retry without rerank, drawn only if there is one.
RetryOutcomes(o1) == IF o1.kind = "token_limit" THEN Outcomes(top_k) ELSE {o1}

\* A faulty variant: the call without a target carries an empty region filter.
EmptyRegionFilter == [kind |-> "eq", regions |-> <<>>]
NoFilter == [kind |-> "none", regions |-> <<>>]
EqFilter(region) == [kind |-> "eq", regions |-> <<region>>]
InFilter(regions) == [kind |-> "in", regions |-> regions]

\* A call of dense_index.search: top_n = 0 stands for a call without rerank.
Call(ns, text, filter, top_n) ==
  [namespace |-> ns, text |-> text, filter |-> filter, top_k |-> top_k,
   top_n |-> top_n]

\* The try/except around every search call: the reranked call, and on the
\* token-limit error the same call once more without rerank; any other
\* exception, and any exception of the retry, propagates.
\* A faulty variant: the retry repeats the reranked call.
RetryKeepsRerank(ns, text, filter, top_n, o1, o2) ==
  IF o1.kind = "token_limit"
    THEN [calls |-> <<Call(ns, text, filter, top_n), Call(ns, text, filter, top_n)>>,
          answers |-> <<o1.kind, o2.kind>>,
          kind  |-> IF o2.kind \in {"token_limit", "error"} THEN "raise" ELSE o2.kind,
          n     |-> o2.n]
    ELSE [calls |-> <<Call(ns, text, filter, top_n)>>,
          answers |-> <<o1.kind>>,
          kind  |-> IF o1.kind = "error" THEN "raise" ELSE o1.kind,
          n     |-> o1.n]
\* A faulty variant: the token-limit error is not retried.
RetryNever(ns, text, filter, top_n, o1, o2) ==
  [calls |-> <<Call(ns, text, filter, top_n)>>,
   answers |-> <<o1.kind>>,
   kind  |-> IF o1.kind \in {"token_limit", "error"} THEN "raise" ELSE o1.kind,
   n     |-> o1.n]
SearchWithRetry(ns, text, filter, top_n, o1, o2) ==
  IF o1.kind = "token_limit"
    THEN [calls |-> <<Call(ns, text, filter, top_n), Call(ns, text, filter, 0)>>,
          answers |-> <<o1.kind, o2.kind>>,
          kind  |-> IF o2.kind \in {"token_limit", "error"} THEN "raise" ELSE o2.kind,
          n     |-> o2.n]
    ELSE [calls |-> <<Call(ns, text, filter, top_n)>>,
          answers |-> <<o1.kind>>,
          kind  |-> IF o1.kind = "error" THEN "raise" ELSE o1.kind,
          n     |-> o1.n]

\* The hits of the stage-th staged call: <<stage, rank>>.
Hits(stage, n) == [i \in 1..n |-> <<stage, i>>]

NoInfo ==
  [present |-> FALSE, target_district |-> Null, districts_searched |-> <<>>,
   districts_available |-> <<>>, region_type |-> "none"]
Info(target, searched, available, region_type) ==
  [present |-> TRUE, target_district |-> target, districts_searched |-> searched,
   districts_available |-> available, region_type |-> region_type]

NoDebug ==
  [present |-> FALSE, selected |-> Null, confidence |-> 0, has_location |-> FALSE,
   extracted_location |-> Null, pinecone_error |-> FALSE, search_info |-> NoInfo]

\* A result dict.  results = None is results_present = FALSE.
Result(source, ns, status, results_present, hits, error, info) ==
  [source |-> source, namespace |-> ns, status |-> status,
   results_present |-> results_present, hits |-> hits, error |-> error,
   search_info |-> info, debug |-> NoDebug]

ErrorResult(ns, error) == Result("pinecone", ns, "error", FALSE, <<>>, error, NoInfo)

RegionType(ns) ==
  IF is_seoul_namespace(ns) THEN "seoul"
  ELSE IF is_gyeonggi_namespace(ns) THEN "gyeonggi"
  ELSE IF is_incheon_namespace(ns) THEN "incheon"
  ELSE IF is_busan_namespace(ns) THEN "busan"
  ELSE IF is_gyeongbuk_namespace(ns) THEN "gyeongbuk"
  ELSE "other"

_format_search_response(ns, hits, target, searched, all) ==
  Result("pinecone", ns, "success", TRUE, hits, "none",
         Info(target, searched, all, RegionType(ns)))

(***************************************************************************)
(* Workout search.                                                         *)
(***************************************************************************)
category_mappings ==
  <<
    <<<<"heo","ri">>, <<<<"heo","ri">>, <<"yo","chu">>, <<"cheok","chu">>, <<"deung","heo","ri">>, <<"heo","ri","tong","jeung">>>>>>,
    <<<<"eo","kkae">>, <<<<"eo","kkae">>, <<"gyeon","gap","gol">>, <<"seung","mo","geun">>, <<"eo","kkae","tong","jeung">>>>>>,
    <<<<"mok">>, <<<<"mok">>, <<"gyeong","chu">>, <<"mok","tong","jeung">>, <<"geo","buk","mok">>>>>>,
    <<<<"mu","reuph">>, <<<<"mu","reuph">>, <<"seul","gae","gol">>, <<"mu","reuph","tong","jeung">>, <<"gwan","jeol">>>>>>,
    <<<<"bal","mok">>, <<<<"bal","mok">>, <<"bal","mok","tong","jeung">>, <<"jok","gwan","jeol">>>>>>,
    <<<<"son","mok">>, <<<<"son","mok">>, <<"son","mok","tong","jeung">>, <<"su","geun","gwan">>>>>>,
    <<<<"eong","deong","i">>, <<<<"eong","deong","i">>, <<"dun","bu">>, <<"go","gwan","jeol">>, <<"hip">>>>>>,
    <<<<"bok","bu">>, <<<<"bok","bu">>, <<"baes","sal">>, <<"bok","geun">>, <<"ko","eo">>>>>>,
    <<<<"pal">>, <<<<"pal">>, <<"i","du","geun">>, <<"sam","du","geun">>, <<"sang","wan">>>>>>,
    <<<<"da","ri">>, <<<<"da","ri">>, <<"ha","che">>, <<"jong","a","ri">>, <<"heo","beok","ji">>>>>>,
    <<<<"ga","seum">>, <<<<"ga","seum">>, <<"hyung","geun">>, <<"dae","hyung","geun">>>>>>,
    <<<<"deung">>, <<<<"deung">>, <<"gwang","bae","geun">>, <<"deung","geun","yuk">>>>>>,
    <<<<"da","i","eo","teu">>, <<<<"da","i","eo","teu">>, <<"che","jung","gam","ryang">>, <<"sal","ppae","gi">>, <<"che","ji","bang">>, <<"gam","ryang">>>>>>,
    <<<<"geun","ryeok","gang","hwa">>, <<<<"geun","ryeok">>, <<"geun","yuk">>, <<"gang","hwa">>, <<"beol","keu","eop">>>>>>,
    <<<<"yu","yeon","seong">>, <<<<"yu","yeon","seong">>, <<"seu","teu","re","ching">>, <<"yu","yeon">>, <<"seu","teu","re","chi">>>>>>,
    <<<<"gyun","hyeong">>, <<<<"gyun","hyeong">>, <<"bael","reon","seu">>, <<"pyeong","hyeong">>>>>>,
    <<<<"jae","hwal">>, <<<<"jae","hwal">>, <<"hoe","bok">>, <<"chi","ryo">>, <<"mul","ri","chi","ryo">>>>>>,
    <<<<"ja","se","gyo","jeong">>, <<<<"ja","se">>, <<"gyo","jeong">>, <<"che","hyeong">>, <<"jeong","ryeol">>>>>>,
    <<<<"che","ryeok">>, <<<<"che","ryeok">>, <<"ji","gu","ryeok">>, <<"seu","tae","mi","na">>, <<"sim","pye">>>>>>,
    <<<<"tong","jeung","wan","hwa">>, <<<<"tong","jeung">>, <<"wan","hwa">>, <<"jin","tong">>, <<"a","peum">>>>>>
  >>

\* The keyword scan of extract_workout_category: the first category, in
\* dict order, one of whose keywords is in the query; None if none is.
KeywordCategory(query) ==
  LET K == {i \in 1..Len(category_mappings) :
              \E j \in 1..Len(category_mappings[i][2]) :
                 Contains(query, category_mappings[i][2][j])}
  IN  IF K = {} THEN Null
      ELSE category_mappings[CHOOSE i \in K : \A j \in K : i <= j][1]

\* extract_workout_category(query): the keyword scan, then the model, whose
\* answer r.category counts only if it is one of the category names.
extract_workout_category(query, gem, r) ==
  LET kw == KeywordCategory(query)
  IN  IF kw # Null THEN [category |-> kw, calls |-> <<>>]
      ELSE IF ~gem THEN [category |-> Null, calls |-> <<>>]
      ELSE [category |-> IF r.kind = "json" /\ HasKey(category_mappings, r.category)
                           THEN r.category ELSE Null,
            calls |-> <<"workout_category">>]

(***************************************************************************)
(* The requests and the collaborators' replies the model draws from.       *)
(***************************************************************************)
QueryJobs      == <<"gang","nam","gu"," ","no","in"," ","il","ja","ri">>
QueryEyeExam   == <<"nun"," ","geom","sa"," ","bat","go"," ","siph","eo","yo">>
QueryCityDong  == <<"seo","ul"," ","gang","nam","gu"," ","yeok","sam","dong"," ","il","ja","ri">>
QueryBackPain  == <<"heo","ri"," ","un","dong">>
QueryYoga      == <<"yo","ga"," ","gyo","sil">>
QueryIsland    == <<"gang","hwa","gun"," ","bok","ji","gwan">>
QueryJungGu    == <<"jung","gu"," ","mun","hwa"," ","peu","ro","geu","raem">>
QueryPohang    == <<"po","hang","si"," ","il","ja","ri">>
QueryDongOnly  == <<"yeok","sam","dong"," ","bok","ji","gwan">>
Queries ==
  {QueryJobs, QueryEyeExam, QueryCityDong, QueryBackPain, QueryYoga, QueryIsland,
   QueryJungGu, QueryPohang, QueryDongOnly}

\* The caller's (userCity, userDistrict): absent, complete (in Seoul, in
\* Busan), or incomplete.
Hints ==
  { <<Null, Null>>,
    <<SeoulCity, <<"do","bong","gu">> >>,
    <<BusanCity, <<"hae","un","dae","gu">> >>,
    <<IncheonCity, <<>> >> }

\* Replies to the extractor's prompts.
ExtractReplies ==
  { RaiseReply, NoJsonReply,
    JsonReply(SeoulCity, <<"seo","cho","gu">>),
    JsonReply(SeoulCity, <<"yeok","sam","dong">>) }
\* A reply is drawn for a prompt only if the prompt is put.
RepliesIf(called) == IF called THEN ExtractReplies ELSE {RaiseReply}

\* Replies to check_location_in_query: has_location as the source reads it
\* (False when the call raises or the text has no usable answer).
CheckReplies == {TRUE, FALSE}

ConfValues == {29, 30, Missing}
\* Replies to the namespace prompt; the last names a key outside the catalog.
NamespaceReplies ==
  {[kind |-> k, namespace |-> ns, confidence |-> c] :
     k \in {"json", "embedded"},
     ns \in {Null, Key("seoul", <<"job">>), PublicHealthCenter},
     c \in ConfValues}
    \cup {[kind |-> k, namespace |-> Null, confidence |-> Missing] :
            k \in {"nojson", "raise"}}
    \cup {[kind |-> "json", namespace |-> Key("made", <<"up">>), confidence |-> 30]}

CategoryReplies ==
  {[kind |-> "json", category |-> c, confidence |-> v] :
     c \in {<<"job">>, <<"welfare">>, Null}, v \in ConfValues}
    \cup {[kind |-> "nojson", category |-> c, confidence |-> Missing] :
            c \in {<<"culture">>, Null}}
    \cup {[kind |-> "raise", category |-> Null, confidence |-> Missing]}

\* Replies to the neighbour-ranking prompt.
ScopeReplies ==
  {[kind |-> "raise", names |-> <<>>], [kind |-> "nojson", names |-> <<>>],
   [kind |-> "json", names |-> << <<"seo","cho","gu">>, <<"do","bong","gu">> >>]}

WorkoutReplies ==
  {[kind |-> "json", category |-> <<"yu","yeon","seong">>],
   [kind |-> "json", category |-> <<"yo","ga">>],
   [kind |-> "raise", category |-> Null]}

(***************************************************************************)
(* State.                                                                  *)
(***************************************************************************)
VARIABLES
  gemini_client,     \* TRUE iff the model client was initialised
  dense_index,       \* TRUE iff the search index was initialised
  limit,             \* the max_neighbors argument of the scope functions
  pc,                \* position of the request in process_query
  query, user_city, user_district,
  query_scan,        \* what _extract_unified_district reads off the query text
  has_location, extracted_location, namespace_result,
  extraction,        \* the last run of _extract_unified_district
  search_extraction, \* its run inside search_pinecone, if any
  target_district_full, target_district, districts_to_search,
  all_results, searched_districts,
  response,          \* what search_pinecone, then process_query, returns
  gen_calls,         \* the prompts put to the model, in order
  answer_calls,      \* the arguments of get_llm_response, in order
  search_calls,      \* the calls of dense_index.search, in order
  search_answers,    \* what dense_index.search answered to each call
  extract_replies,   \* the model's replies to the extractor, when it runs alone
  classify_replies,  \* the model's reply to select_namespace, when it runs alone
  shared,            \* the module-level tables and the catalog, as all runs read them
  runs               \* the runs in flight when several requests are served at once

concurrent_vars == <<shared, runs>>

vars ==
  <<gemini_client, dense_index, limit, pc, query, user_city, user_district,
    query_scan, has_location, extracted_location, namespace_result, extraction,
    search_extraction, target_district_full, target_district,
    districts_to_search, all_results, searched_districts, response,
    gen_calls, answer_calls, search_calls, search_answers, extract_replies, classify_replies, concurrent_vars>>

NoExtraction == [result |-> Null, tier |-> "not_run", calls |-> <<>>]
NoNamespace ==
  [namespace |-> Null, confidence |-> 0, reasoning |-> "not_run", calls |-> <<>>]
NoResponse == Result("none", Null, "none", FALSE, <<>>, "none", NoInfo)

\* query_processor = QueryProcessor(gemini_client, pc, dense_index_name):
\* either client may have failed to initialise.
Init ==
  /\ gemini_client \in BOOLEAN
  /\ dense_index \in BOOLEAN
  /\ limit = max_neighbors
  /\ pc = "idle"
  /\ query = <<>> /\ user_city = Null /\ user_district = Null
  /\ query_scan = QueryScan(<<>>)
  /\ has_location = FALSE /\ extracted_location = Null
  /\ namespace_result = NoNamespace
  /\ extraction = NoExtraction /\ search_extraction = NoExtraction
  /\ target_district_full = Null /\ target_district = Null
  /\ districts_to_search = <<>> /\ all_results = <<>> /\ searched_districts = <<>>
  /\ response = NoResponse
  /\ gen_calls = <<>> /\ answer_calls = <<>> /\ search_calls = <<>>
  /\ search_answers = <<>> /\ extract_replies = <<>>
  /\ classify_replies = <<>>
  /\ shared = Shared /\ runs = <<>>

request_vars == <<query, user_city, user_district, query_scan>>
client_vars == <<gemini_client, dense_index, limit>>
classify_vars == <<has_location, extracted_location, namespace_result, extraction>>
search_vars ==
  <<search_extraction, target_district_full, target_district, districts_to_search,
    all_results, searched_districts>>

\* process_query(query, user_city, user_district) is called.
Request ==
  /\ pc = "idle"
  /\ \E q \in Queries, h \in Hints :
       /\ query' = q /\ user_city' = h[1] /\ user_district' = h[2]
       /\ query_scan' = QueryScan(q)
  /\ pc' = "check"
  /\ UNCHANGED <<client_vars, classify_vars, search_vars, response, gen_calls,
                 answer_calls, search_calls, search_answers, extract_replies, classify_replies, concurrent_vars>>

\* Step 1: has_location, detected_location = check_location_in_query(query).
\* Without a model client the function returns a bare False and the
\* unpacking raises TypeError out of process_query.
CheckLocation ==
  /\ pc = "check"
  /\ IF ~gemini_client
       THEN /\ pc' = "raised"
            /\ UNCHANGED <<has_location, gen_calls>>
       ELSE \E r \in CheckReplies :
              /\ has_location' = r
              /\ gen_calls' = Append(gen_calls, "check_location")
              /\ pc' = IF r THEN "extract" ELSE "classify"
  /\ UNCHANGED <<client_vars, request_vars, extracted_location, namespace_result,
                 extraction, search_vars, response, answer_calls, search_calls, search_answers, extract_replies, classify_replies, concurrent_vars>>

\* Step 2, first half: extracted_location = _extract_unified_district(query).
ExtractLocation ==
  /\ pc = "extract"
  /\ LET scan == query_scan
     IN  \E r0 \in RepliesIf(CallsCityDong(scan, gemini_client)),
            r4 \in RepliesIf(CallsDong(scan, gemini_client)),
            r5 \in RepliesIf(CallsWords(scan, gemini_client)),
            r6 \in RepliesIf(gemini_client) :
           LET e == ExtractUnified(scan, gemini_client, r0, r4, r5, r6)
           IN  /\ extraction' = e
               /\ extracted_location' = e.result
               /\ gen_calls' = gen_calls \o e.calls
  /\ pc' = "classify"
  /\ UNCHANGED <<client_vars, request_vars, has_location, namespace_result,
                 search_vars, response, answer_calls, search_calls, search_answers, extract_replies, classify_replies, concurrent_vars>>

\* Step 2, second half: the namespace is selected by one of the three
\* classification operations.
SelectNamespace ==
  /\ pc = "classify"
  /\ \E rc \in CategoryReplies, rn \in NamespaceReplies :
       LET n == IF has_location
                  THEN IF Truthy(extracted_location)
                         THEN select_namespace_with_location(
                                extracted_location, gemini_client, rc, rn)
                         ELSE select_namespace(gemini_client, rn)
                  ELSE select_namespace_without_location(query)
       IN  /\ namespace_result' = n
           /\ gen_calls' = gen_calls \o n.calls
  /\ pc' = "route"
  /\ UNCHANGED <<client_vars, request_vars, has_location, extracted_location,
                 extraction, search_vars, response, answer_calls, search_calls, search_answers, extract_replies, classify_replies, concurrent_vars>>

selected_namespace == namespace_result.namespace
\* namespace_result.get('confidence', 0)
confidence == ConfOrZero(namespace_result.confidence)

debug_info ==
  [present |-> TRUE, selected |-> selected_namespace, confidence |-> confidence,
   has_location |-> has_location, extracted_location |-> extracted_location,
   pinecone_error |-> FALSE, search_info |-> NoInfo]

\* get_llm_response(query): source "llm"; the model is asked only if the
\* client exists, and a failing call gives status "error".
get_llm_response(gem, ok) ==
  Result("llm", Null, IF gem /\ ok THEN "success" ELSE "error", FALSE, <<>>,
         IF gem /\ ok THEN "none" ELSE "llm_error", NoInfo)

\* Step 3, no namespace: the answer comes from get_llm_response(query).
AnswerDirect ==
  /\ pc = "route"
  /\ selected_namespace = Null
  /\ \E ok \in BOOLEAN :
       response' = [get_llm_response(gemini_client, ok) EXCEPT !.debug = debug_info]
  /\ answer_calls' = Append(answer_calls, query)
  /\ gen_calls' = IF gemini_client THEN Append(gen_calls, "answer") ELSE gen_calls
  /\ pc' = "done"
  /\ UNCHANGED <<client_vars, request_vars, classify_vars, search_vars, search_calls, search_answers, extract_replies, classify_replies, concurrent_vars>>

JeonChe == <<"jeon","che">>

\* Step 3, a namespace was selected: search_pinecone is entered (lines
\* 1586-1652).  The workout namespace is handed to search_workout_videos; a
\* missing index is an error result; otherwise the region is resolved from
\* the query text, then from the caller's hint, and public_health_center
\* without a region is an error result.
SearchEnter ==
  /\ pc = "route"
  /\ selected_namespace # Null
  /\ IF selected_namespace = Workout THEN
       /\ pc' = "workout"
       /\ UNCHANGED <<search_vars, response, gen_calls>>
     ELSE IF ~dense_index THEN
       /\ response' = ErrorResult(selected_namespace, "index_not_initialized")
       /\ pc' = "finalize"
       /\ UNCHANGED <<search_vars, gen_calls>>
     ELSE
       LET scan == query_scan
       IN
       \E r0 \in RepliesIf(CallsCityDong(scan, gemini_client)),
          r4 \in RepliesIf(CallsDong(scan, gemini_client)),
          r5 \in RepliesIf(CallsWords(scan, gemini_client)),
          r6 \in RepliesIf(gemini_client) :
         LET e      == ExtractUnified(scan, gemini_client, r0, r4, r5, r6)
             fromq  == extract_district_from_query(e.result, selected_namespace)
             full   == TargetFull(fromq, selected_namespace, user_city, user_district)
             target == TargetDistrict(full)
         IN  /\ search_extraction' = e
             /\ gen_calls' = gen_calls \o e.calls
             /\ target_district_full' = full
             /\ target_district' = target
             /\ UNCHANGED <<districts_to_search, all_results, searched_districts>>
             /\ IF ~Truthy(target) /\ selected_namespace = PublicHealthCenter
                  THEN /\ response' = ErrorResult(selected_namespace, "region_required")
                       /\ pc' = "finalize"
                  ELSE /\ UNCHANGED response
                       /\ pc' = IF selected_namespace = PublicHealthCenter
                                  THEN "health" ELSE "scope"
  /\ UNCHANGED <<client_vars, request_vars, classify_vars, answer_calls, search_calls, search_answers, extract_replies, classify_replies, concurrent_vars>>

\* Lines 1662-1722: the public_health_center search, filtered to the full
\* region text.
HealthCenterSearch ==
  /\ pc = "health"
  /\ \E o1 \in Outcomes(rerank_top_n) : \E o2 \in RetryOutcomes(o1) :
       LET s == SearchWithRetry(selected_namespace, query,
                                EqFilter(target_district_full), rerank_top_n, o1, o2)
       IN  /\ search_calls' = search_calls \o s.calls
           /\ search_answers' = search_answers \o s.answers
           /\ UNCHANGED <<extract_replies, classify_replies, concurrent_vars>>
           /\ response' =
                IF s.kind = "raise" THEN ErrorResult(selected_namespace, "search_error")
                ELSE IF s.kind = "hits" THEN
                  _format_search_response(selected_namespace, Hits(1, s.n),
                    target_district_full, <<target_district_full>>, <<>>)
                ELSE Result("pinecone", selected_namespace, "success", TRUE, <<>>,
                            "none", Info(target_district_full,
                                         <<target_district_full>>, <<>>, "none"))
  /\ pc' = "finalize"
  /\ UNCHANGED <<client_vars, request_vars, classify_vars, search_vars, gen_calls,
                 answer_calls>>

\* Lines 1726-1729: the scope, target first, from
\* select_relevant_nearby_districts; empty without a target.
BuildScope ==
  /\ pc = "scope"
  /\ IF Truthy(target_district)
       THEN \E r \in ScopeReplies :
              /\ districts_to_search' =
                   select_relevant_nearby_districts(target_district,
                     selected_namespace, limit, gemini_client, r)
              /\ gen_calls' =
                   IF gemini_client /\ EnrichedCall(target_district, selected_namespace)
                     THEN Append(gen_calls, "rank_neighbors") ELSE gen_calls
              /\ pc' = "stage1"
       ELSE /\ districts_to_search' = <<>>
            /\ UNCHANGED gen_calls
            /\ pc' = "unfiltered"
  /\ UNCHANGED <<client_vars, request_vars, classify_vars, search_extraction,
                 target_district_full, target_district, all_results,
                 searched_districts, response, answer_calls, search_calls, search_answers, extract_replies, classify_replies, concurrent_vars>>

\* Lines 1741-1784, TargetOnly: one search filtered to the target region;
\* with SufficiencyThreshold hits or more the run returns at once.
TargetOnly ==
  /\ pc = "stage1"
  /\ \E o1 \in Outcomes(rerank_top_n) : \E o2 \in RetryOutcomes(o1) :
       LET s == SearchWithRetry(selected_namespace, query,
                                EqFilter(target_district), rerank_top_n, o1, o2)
       IN  /\ search_calls' = search_calls \o s.calls
           /\ search_answers' = search_answers \o s.answers
           /\ UNCHANGED <<extract_replies, classify_replies, concurrent_vars>>
           /\ IF s.kind = "raise" THEN
                /\ response' = ErrorResult(selected_namespace, "search_error")
                /\ pc' = "finalize"
                /\ UNCHANGED <<all_results, searched_districts>>
              ELSE IF s.kind = "hits" THEN
                /\ all_results' = all_results \o Hits(1, s.n)
                /\ searched_districts' = Append(searched_districts, target_district)
                /\ IF s.n >= SufficiencyThreshold
                     THEN /\ response' = _format_search_response(selected_namespace,
                               Hits(1, s.n), target_district, <<target_district>>,
                               districts_to_search)
                          /\ pc' = "finalize"
                     ELSE /\ UNCHANGED response
                          /\ pc' = "stage2"
              ELSE
                /\ UNCHANGED <<all_results, searched_districts, response>>
                /\ pc' = "stage2"
  /\ UNCHANGED <<client_vars, request_vars, classify_vars, search_extraction,
                 target_district_full, target_district, districts_to_search,
                 gen_calls, answer_calls>>

\* Lines 1785-1826, Unfiltered: no target region, one search without a
\* region filter.  A payload without hits falls through to the final return.
Unfiltered ==
  /\ pc = "unfiltered"
  /\ \E o1 \in Outcomes(rerank_top_n) : \E o2 \in RetryOutcomes(o1) :
       LET s == SearchWithRetry(selected_namespace, query, NoFilter, rerank_top_n,
                                o1, o2)
       IN  /\ search_calls' = search_calls \o s.calls
           /\ search_answers' = search_answers \o s.answers
           /\ UNCHANGED <<extract_replies, classify_replies, concurrent_vars>>
           /\ IF s.kind = "hits" THEN
                /\ all_results' = all_results \o Hits(1, s.n)
                /\ searched_districts' = Append(searched_districts, JeonChe)
                /\ response' = _format_search_response(selected_namespace,
                     Hits(1, s.n), JeonChe, <<JeonChe>>, <<>>)
              ELSE
                /\ UNCHANGED <<all_results, searched_districts>>
                /\ response' =
                     IF s.kind = "raise"
                       THEN ErrorResult(selected_namespace, "search_error")
                       ELSE _format_search_response(selected_namespace, all_results,
                              target_district, searched_districts, districts_to_search)
  /\ pc' = "finalize"
  /\ UNCHANGED <<client_vars, request_vars, classify_vars, search_extraction,
                 target_district_full, target_district, districts_to_search,
                 gen_calls, answer_calls>>

\* A faulty variant: the target stays in the second-stage filter.
RemainingKeepsTarget(scope, target) == scope
\* remaining_districts = [d for d in districts_to_search if d != target]
Remaining(scope, target) ==
  LET Other(d) == d # target IN SelectSeq(scope, Other)

\* Lines 1828-1876, NeighborExpansion: fewer than SufficiencyThreshold hits
\* so far; if the scope holds a region other than the target, one search
\* filtered to those regions asks for the missing number of results; the
\* run then returns whatever was accumulated.
NeighborExpansion ==
  /\ pc = "stage2"
  /\ LET remaining == Remaining(districts_to_search, target_district)
         needed    == SufficiencyThreshold - Len(all_results)
     IN  IF Len(all_results) < SufficiencyThreshold /\ districts_to_search # <<>>
            /\ Truthy(target_district) /\ remaining # <<>>
         THEN
           \E o1 \in Outcomes(needed) : \E o2 \in RetryOutcomes(o1) :
             LET s == SearchWithRetry(selected_namespace, query,
                                      InFilter(remaining), needed, o1, o2)
                 hits == IF s.kind = "hits" THEN all_results \o Hits(2, s.n)
                         ELSE all_results
                 done == IF s.kind = "hits" THEN searched_districts \o remaining
                         ELSE searched_districts
             IN  /\ search_calls' = search_calls \o s.calls
                 /\ search_answers' = search_answers \o s.answers
                 /\ UNCHANGED <<extract_replies, classify_replies, concurrent_vars>>
                 /\ IF s.kind = "raise"
                      THEN /\ response' = ErrorResult(selected_namespace, "search_error")
                           /\ UNCHANGED <<all_results, searched_districts>>
                      ELSE /\ all_results' = hits
                           /\ searched_districts' = done
                           /\ response' = _format_search_response(selected_namespace,
                                hits, target_district, done, districts_to_search)
         ELSE
           /\ response' = _format_search_response(selected_namespace, all_results,
                target_district, searched_districts, districts_to_search)
           /\ UNCHANGED <<all_results, searched_districts, search_calls, search_answers, extract_replies, classify_replies, concurrent_vars>>
  /\ pc' = "finalize"
  /\ UNCHANGED <<client_vars, request_vars, classify_vars, search_extraction,
                 target_district_full, target_district, districts_to_search,
                 gen_calls, answer_calls>>

\* A keyword text the model may return for the title search.
OptimizedText == <<"heo","ri"," ","seu","teu","re","ching">>

\* search_workout_videos (lines 369-453): the category search.  With a
\* category, zero hits hand over to the title search; a payload without
\* hits leaves the function without a return statement, so it returns None
\* and process_query raises at response["debug"] = debug_info.
WorkoutSearch ==
  /\ pc = "workout"
  /\ IF ~dense_index THEN
       /\ response' = ErrorResult(Workout, "index_not_initialized")
       /\ pc' = "finalize"
       /\ UNCHANGED <<gen_calls, search_calls, search_answers, extract_replies, classify_replies, concurrent_vars, all_results>>
     ELSE
       \E rw \in WorkoutReplies, o1 \in Outcomes(rerank_top_n) : \E o2 \in RetryOutcomes(o1) :
         LET c == extract_workout_category(query, gemini_client, rw)
             s == SearchWithRetry(Workout, query, EqFilter(c.category),
                                  rerank_top_n, o1, o2)
         IN  /\ gen_calls' = gen_calls \o c.calls
             /\ IF ~Truthy(c.category) THEN
                  /\ pc' = "title"
                  /\ UNCHANGED <<response, search_calls, search_answers, extract_replies, classify_replies, concurrent_vars, all_results>>
                ELSE
                  /\ search_calls' = search_calls \o s.calls
                  /\ search_answers' = search_answers \o s.answers
                  /\ UNCHANGED <<extract_replies, classify_replies, concurrent_vars>>
                  /\ IF s.kind = "raise" THEN
                       /\ response' = ErrorResult(Workout, "search_error")
                       /\ pc' = "finalize"
                       /\ UNCHANGED all_results
                     ELSE IF s.kind = "malformed" THEN
                       /\ pc' = "raised"
                       /\ UNCHANGED <<response, all_results>>
                     ELSE IF s.n = 0 THEN
                       /\ pc' = "title"
                       /\ UNCHANGED <<response, all_results>>
                     ELSE
                       /\ all_results' = Hits(1, s.n)
                       /\ response' = Result("pinecone", Workout, "success", TRUE,
                            Hits(1, s.n), "none", Info(Null, <<>>, <<>>, "category_filter"))
                       /\ pc' = "finalize"
  /\ UNCHANGED <<client_vars, request_vars, classify_vars, search_extraction,
                 target_district_full, target_district, districts_to_search,
                 searched_districts, answer_calls>>

\* _search_workout_by_title (lines 456-546): the model may rewrite the
\* search text; one search without a filter.
WorkoutTitleSearch ==
  /\ pc = "title"
  /\ \E rewritten \in BOOLEAN, o1 \in Outcomes(rerank_top_n) : \E o2 \in RetryOutcomes(o1) :
       LET text == IF gemini_client /\ rewritten THEN OptimizedText ELSE query
           s    == SearchWithRetry(Workout, text, NoFilter, rerank_top_n, o1, o2)
           stage == IF all_results = <<>> /\ search_calls = <<>> THEN 1 ELSE 2
       IN  /\ gen_calls' = IF gemini_client THEN Append(gen_calls, "workout_keywords")
                           ELSE gen_calls
           /\ search_calls' = search_calls \o s.calls
           /\ search_answers' = search_answers \o s.answers
           /\ UNCHANGED <<extract_replies, classify_replies, concurrent_vars>>
           /\ all_results' = IF s.kind = "hits" THEN Hits(stage, s.n) ELSE <<>>
           /\ response' =
                IF s.kind = "raise" THEN ErrorResult(Workout, "search_error")
                ELSE Result("pinecone", Workout, "success", TRUE,
                            IF s.kind = "hits" THEN Hits(stage, s.n) ELSE <<>>,
                            "none", Info(Null, <<>>, <<>>, "title_search"))
  /\ pc' = "finalize"
  /\ UNCHANGED <<client_vars, request_vars, classify_vars, search_extraction,
                 target_district_full, target_district, districts_to_search,
                 searched_districts, answer_calls>>

\* has_results of process_query (lines 2049-2054)
HasResults(r) == r.status = "success" /\ r.results_present /\ r.hits # <<>>

\* Lines 2046-2063: the search result gets the debug info; without usable
\* hits the answer of get_llm_response replaces it, carrying the debug info
\* and the pinecone_error mark.
Finalize ==
  /\ pc = "finalize"
  /\ IF HasResults(response)
       THEN /\ response' = [response EXCEPT !.debug = debug_info]
            /\ UNCHANGED <<answer_calls, gen_calls>>
       ELSE /\ \E ok \in BOOLEAN :
                 response' = [get_llm_response(gemini_client, ok) EXCEPT
                                !.debug = [debug_info EXCEPT !.pinecone_error = TRUE]]
            /\ answer_calls' = Append(answer_calls, query)
            /\ gen_calls' = IF gemini_client THEN Append(gen_calls, "answer")
                            ELSE gen_calls
  /\ pc' = "done"
  /\ UNCHANGED <<client_vars, request_vars, classify_vars, search_vars, search_calls, search_answers, extract_replies, classify_replies, concurrent_vars>>

Next ==
  \/ Request
  \/ CheckLocation
  \/ ExtractLocation
  \/ SelectNamespace
  \/ AnswerDirect
  \/ SearchEnter
  \/ HealthCenterSearch
  \/ BuildScope
  \/ TargetOnly
  \/ Unfiltered
  \/ NeighborExpansion
  \/ WorkoutSearch
  \/ WorkoutTitleSearch
  \/ Finalize

Spec == Init /\ [][Next]_vars

(***************************************************************************)
(* The scope functions on their own: get_nearby_districts and              *)
(* select_relevant_nearby_districts applied to a district, a namespace and *)
(* a limit drawn from bounded sets.                                        *)
(***************************************************************************)
MaxLimit == 3
ScopeDistricts ==
  { <<"gang","nam","gu">>, <<"jung","gu">>, <<"su","won","si">>,
    <<"gang","hwa","gun">>, <<"ong","jin","gun">>, <<"bu","pyeong","gu">>,
    <<"hae","un","dae","gu">>, <<"ul","reung","gun">>, <<"po","hang","si">>,
    <<"eops","neun","gu">>, <<>>, Null }
ScopeNamespaces ==
  { Key("seoul", <<"job">>), Key("kk", <<"culture">>), Key("ich", <<"job">>),
    Key("ich", <<"facility">>), Key("bs", <<"job">>), Key("kb", <<"job">>),
    Key("kb", <<"culture">>), PublicHealthCenter }
ScopeRepliesAll ==
  ScopeReplies \cup
    {[kind |-> "json", names |-> << <<"bu","pyeong","gu">>, <<"eops","neun","gu">>,
                                    <<"gye","yang","gu">>, <<"seo","gu">>,
                                    <<"nam","dong","gu">>, <<"jung","gu">> >>]}

ScopeInit ==
  /\ gemini_client \in BOOLEAN
  /\ dense_index = TRUE
  /\ limit \in 0..MaxLimit
  /\ pc = "lookup"
  /\ query = QueryJobs /\ user_city = Null /\ user_district = Null
  /\ query_scan = QueryScan(<<>>)
  /\ has_location = FALSE /\ extracted_location = Null
  /\ \E ns \in ScopeNamespaces :
       namespace_result = [NoNamespace EXCEPT !.namespace = ns]
  /\ extraction = NoExtraction /\ search_extraction = NoExtraction
  /\ target_district_full = Null
  /\ target_district \in ScopeDistricts
  /\ districts_to_search = <<>> /\ all_results = <<>> /\ searched_districts = <<>>
  /\ response = NoResponse
  /\ gen_calls = <<>> /\ answer_calls = <<>> /\ search_calls = <<>>
  /\ search_answers = <<>> /\ extract_replies = <<>>
  /\ classify_replies = <<>>
  /\ shared = Shared /\ runs = <<>>

scope_unchanged ==
  <<client_vars, request_vars, classify_vars, search_extraction,
    target_district_full, target_district, all_results, searched_districts,
    response, answer_calls, search_calls, search_answers, extract_replies, classify_replies, concurrent_vars>>

\* get_nearby_districts(target_district, namespace, limit)
GetNearby ==
  /\ pc = "lookup"
  /\ districts_to_search' = get_nearby_districts(target_district, selected_namespace, limit)
  /\ pc' = "nearby"
  /\ UNCHANGED <<scope_unchanged, gen_calls>>

\* select_relevant_nearby_districts(query, target_district, namespace, limit)
SelectRelevant ==
  /\ pc = "lookup"
  /\ \E r \in ScopeRepliesAll :
       districts_to_search' =
         select_relevant_nearby_districts(target_district, selected_namespace,
                                          limit, gemini_client, r)
  /\ gen_calls' =
       IF gemini_client /\ EnrichedCall(target_district, selected_namespace)
         THEN Append(gen_calls, "rank_neighbors") ELSE gen_calls
  /\ pc' = "relevant"
  /\ UNCHANGED scope_unchanged

\* The (city, region) pairs the extractor resolves for the regions above: a
\* resolved text is "<city> <region>" with the region a key of that city's
\* table (direct match, or city keyword plus region).
ResolvedPairs ==
  { p \in {CityBlocks[i][1] : i \in 1..Len(CityBlocks)} \X ScopeDistricts :
      \E i \in 1..Len(CityBlocks) :
        CityBlocks[i][1] = p[1] /\ HasKey(CityBlocks[i][2], p[2]) }

\* Lines 1601 and 1627-1635 of search_pinecone: the resolved text is
\* projected on the namespace and the last part becomes the target region.
ProjectRegion ==
  /\ pc = "lookup"
  /\ \E p \in ResolvedPairs :
       /\ extracted_location' = Join2(p[1], p[2])
       /\ target_district_full' =
            extract_district_from_query(Join2(p[1], p[2]), selected_namespace)
  /\ target_district' = TargetDistrict(target_district_full')
  /\ pc' = "projected"
  /\ UNCHANGED <<client_vars, request_vars, has_location, namespace_result,
                 extraction, search_extraction, districts_to_search, all_results,
                 searched_districts, response, gen_calls, answer_calls,
                 search_calls, search_answers, extract_replies, classify_replies, concurrent_vars>>

ScopeNext == GetNearby \/ SelectRelevant \/ ProjectRegion

SpecScope == ScopeInit /\ [][ScopeNext]_vars

(***************************************************************************)
(* The extractor on its own: _extract_unified_district applied to a query  *)
(* with the model's replies drawn from a bounded set and recorded.         *)
(***************************************************************************)
\* Replies to the extractor's prompts, with those that lack a part or name
\* a city of their own.
ExtractRepliesAll ==
  ExtractReplies \cup
    { JsonReply(Null, <<"seo","cho","gu">>),
      JsonReply(SeoulCity, Null),
      JsonReply(GyeonggiCity, <<"hae","un","dae","gu">>),
      JsonReply(SeoulCity, <<"gang","nam","gu">>) }
RepliesAllIf(called) == IF called THEN ExtractRepliesAll ELSE {RaiseReply}

\* The extractor's queries: the requests, a query naming a region whose name
\* holds a shorter region name, and one naming two regions.
QueryNamdong    == <<"nam","dong","gu"," ","il","ja","ri">>
QueryTwoRegions ==
  <<"hae","un","dae","gu","wa"," ","gang","nam","gu"," ","il","ja","ri">>
ExtractQueries == Queries \cup {QueryNamdong, QueryTwoRegions}

ExtractInit ==
  /\ gemini_client \in BOOLEAN
  /\ dense_index = TRUE
  /\ limit = max_neighbors
  /\ pc = "extract"
  /\ query \in ExtractQueries
  /\ query_scan = QueryScan(query)
  /\ user_city = Null /\ user_district = Null
  /\ has_location = TRUE /\ extracted_location = Null
  /\ namespace_result = NoNamespace
  /\ extraction = NoExtraction /\ search_extraction = NoExtraction
  /\ target_district_full = Null /\ target_district = Null
  /\ districts_to_search = <<>> /\ all_results = <<>> /\ searched_districts = <<>>
  /\ response = NoResponse
  /\ gen_calls = <<>> /\ answer_calls = <<>> /\ search_calls = <<>>
  /\ search_answers = <<>> /\ extract_replies = <<>>
  /\ classify_replies = <<>>
  /\ shared = Shared /\ runs = <<>>

\* _extract_unified_district(query): one run; extract_replies keeps the
\* replies to the city-and-dong prompt and to steps 4, 5 and 6.
ExtractRun ==
  /\ pc = "extract"
  /\ \E r0 \in RepliesAllIf(CallsCityDong(query_scan, gemini_client)),
        r4 \in RepliesAllIf(CallsDong(query_scan, gemini_client)),
        r5 \in RepliesAllIf(CallsWords(query_scan, gemini_client)),
        r6 \in RepliesAllIf(gemini_client) :
       LET e == ExtractUnified(query_scan, gemini_client, r0, r4, r5, r6)
       IN  /\ extraction' = e
           /\ extracted_location' = e.result
           /\ gen_calls' = gen_calls \o e.calls
           /\ extract_replies' = <<r0, r4, r5, r6>>
  /\ pc' = "extracted"
  /\ UNCHANGED <<client_vars, request_vars, has_location, namespace_result,
                 search_vars, response, answer_calls, search_calls, search_answers,
                 classify_replies, concurrent_vars>>

ExtractNext == ExtractRun

SpecExtract == ExtractInit /\ [][ExtractNext]_vars

(***************************************************************************)
(* The general classifier on its own: select_namespace applied to a query  *)
(* with the model's reply drawn from a bounded set and recorded.           *)
(***************************************************************************)
HighPercent == 90
\* Replies to the namespace prompt, with a key of another city, a key that
\* is not in the catalog and a high confidence.
NamespaceRepliesAll ==
  NamespaceReplies \cup
    {[kind |-> k, namespace |-> ns, confidence |-> c] :
       k \in {"json", "embedded"},
       ns \in {Key("kk", <<"culture">>), Key("made", <<"up">>)},
       c \in {0, HighPercent}}

ClassifyInit ==
  /\ gemini_client \in BOOLEAN
  /\ dense_index = TRUE
  /\ limit = max_neighbors
  /\ pc = "select"
  /\ query \in Queries
  /\ query_scan = QueryScan(<<>>)
  /\ user_city = Null /\ user_district = Null
  /\ has_location = TRUE /\ extracted_location = Null
  /\ namespace_result = NoNamespace
  /\ extraction = NoExtraction /\ search_extraction = NoExtraction
  /\ target_district_full = Null /\ target_district = Null
  /\ districts_to_search = <<>> /\ all_results = <<>> /\ searched_districts = <<>>
  /\ response = NoResponse
  /\ gen_calls = <<>> /\ answer_calls = <<>> /\ search_calls = <<>>
  /\ search_answers = <<>> /\ extract_replies = <<>>
  /\ classify_replies = <<>>
  /\ shared = Shared /\ runs = <<>>

\* select_namespace(query): one run; classify_replies keeps the model's
\* reply when the prompt was put.
ClassifyRun ==
  /\ pc = "select"
  /\ \E rn \in NamespaceRepliesAll :
       LET n == select_namespace(gemini_client, rn)
       IN  /\ namespace_result' = n
           /\ gen_calls' = gen_calls \o n.calls
           /\ classify_replies' = IF gemini_client THEN <<rn>> ELSE <<>>
  /\ pc' = "selected"
  /\ UNCHANGED <<client_vars, request_vars, has_location, extracted_location,
                 extraction, search_vars, response, answer_calls, search_calls,
                 search_answers, extract_replies, concurrent_vars>>

ClassifyNext == ClassifyRun

SpecClassify == ClassifyInit /\ [][ClassifyNext]_vars

(***************************************************************************)
(* Several requests served at once by the one QueryProcessor: each run     *)
(* composes its namespace key against the catalog and looks its region up  *)
(* in the adjacency tables, the steps of the runs interleaved.             *)
(***************************************************************************)
RunIds == {1, 2}
RunLimits == {1, 3}
RunPrefixes == {"seoul", "ich"}
RunCategories == {<<"job">>, <<"welfare">>}
RunDistricts ==
  { <<"gang","nam","gu">>, <<"gang","hwa","gun">>, <<"eops","neun","gu">> }

IdleRun ==
  [pc |-> "idle", prefix |-> "none", category |-> Null, district |-> Null,
   max_neighbors |-> 0, namespace |-> Null, neighbors |-> <<>>, result |-> <<>>]

\* The index in CityBlocks of the table a namespace reads, and the popular
\* regions written in the lookup function of that city.
FamilyIndex(ns) ==
  IF is_seoul_namespace(ns) THEN 1
  ELSE IF is_gyeonggi_namespace(ns) THEN 2
  ELSE IF is_incheon_namespace(ns) THEN 3
  ELSE IF is_busan_namespace(ns) THEN 4
  ELSE 5
PopularOf(i) ==
  <<SeoulPopular, GyeonggiPopular, IncheonPopular, BusanPopular, GyeongbukPopular>>[i]

\* A faulty variant: the neighbour list is cut in place, in the table.
SliceInPlace(adjacency, i, district, n) ==
  [adjacency EXCEPT ![i] =
     [k \in 1..Len(adjacency[i]) |->
        IF adjacency[i][k][1] = district
          THEN <<district, Take(adjacency[i][k][2], n)>>
          ELSE adjacency[i][k]]]
\* The tables after `TABLE.get(district, [])[:max_neighbors]`: the slice is
\* a new list, the table is as it was.
AfterSlice(adjacency, i, district, n) == adjacency

ConcurrentInit ==
  /\ gemini_client = TRUE
  /\ dense_index = TRUE
  /\ limit = max_neighbors
  /\ pc = "serving"
  /\ query = QueryJobs
  /\ query_scan = QueryScan(<<>>)
  /\ user_city = Null /\ user_district = Null
  /\ has_location = TRUE /\ extracted_location = Null
  /\ namespace_result = NoNamespace
  /\ extraction = NoExtraction /\ search_extraction = NoExtraction
  /\ target_district_full = Null /\ target_district = Null
  /\ districts_to_search = <<>> /\ all_results = <<>> /\ searched_districts = <<>>
  /\ response = NoResponse
  /\ gen_calls = <<>> /\ answer_calls = <<>> /\ search_calls = <<>>
  /\ search_answers = <<>> /\ extract_replies = <<>>
  /\ classify_replies = <<>>
  /\ shared = Shared
  /\ runs = [r \in RunIds |-> IdleRun]

sequential_vars ==
  <<client_vars, request_vars, classify_vars, search_vars, response, pc,
    gen_calls, answer_calls, search_calls, search_answers, extract_replies,
    classify_replies>>

\* A request arrives: the resolved city, the model's category, the target
\* region and max_neighbors of the run.
RunStart(r) ==
  /\ runs[r].pc = "idle"
  /\ \E p \in RunPrefixes, c \in RunCategories, d \in RunDistricts, n \in RunLimits :
       runs' = [runs EXCEPT ![r] =
                  [IdleRun EXCEPT !.pc = "compose", !.prefix = p, !.category = c,
                                  !.district = d, !.max_neighbors = n]]
  /\ UNCHANGED <<sequential_vars, shared>>

\* Lines 2121-2125: the key is composed and looked up in NAMESPACE_INFO.
RunCompose(r) ==
  /\ runs[r].pc = "compose"
  /\ LET ns == Key(runs[r].prefix, runs[r].category)
     IN  runs' = [runs EXCEPT ![r] =
                    IF \E i \in 1..Len(shared.catalog) : shared.catalog[i] = ns
                      THEN [runs[r] EXCEPT !.pc = "lookup", !.namespace = ns]
                      ELSE [runs[r] EXCEPT !.pc = "done"]]
  /\ UNCHANGED <<sequential_vars, shared>>

\* _get_*_nearby_districts up to the slice: an unknown region returns the
\* popular regions, a known one has its declared list sliced.
RunLookup(r) ==
  /\ runs[r].pc = "lookup"
  /\ LET i     == FamilyIndex(runs[r].namespace)
         table == shared.adjacency[i]
     IN  IF Unknown(table, runs[r].district)
           THEN /\ runs' = [runs EXCEPT ![r] =
                             [runs[r] EXCEPT !.pc = "done", !.result = PopularOf(i)]]
                /\ UNCHANGED shared
           ELSE /\ runs' = [runs EXCEPT ![r] =
                             [runs[r] EXCEPT !.pc = "return",
                                !.neighbors = Take(Lookup(table, runs[r].district),
                                                   runs[r].max_neighbors)]]
                /\ shared' = [shared EXCEPT !.adjacency =
                                AfterSlice(shared.adjacency, i, runs[r].district,
                                           runs[r].max_neighbors)]
  /\ UNCHANGED sequential_vars

\* The return of _get_*_nearby_districts: the region and its neighbours,
\* or, for Incheon and Gyeongbuk regions without neighbours, the region and
\* the popular regions.
RunReturn(r) ==
  /\ runs[r].pc = "return"
  /\ LET i == FamilyIndex(runs[r].namespace)
     IN  runs' = [runs EXCEPT ![r] =
                    [runs[r] EXCEPT !.pc = "done",
                       !.result =
                         IF runs[r].neighbors = <<>> /\ i \in {3, 5}
                           THEN <<runs[r].district>>
                                  \o Take(PopularOf(i), runs[r].max_neighbors)
                           ELSE <<runs[r].district>> \o runs[r].neighbors]]
  /\ UNCHANGED <<sequential_vars, shared>>

ConcurrentNext ==
  \E r \in RunIds : RunStart(r) \/ RunCompose(r) \/ RunLookup(r) \/ RunReturn(r)

SpecConcurrent == ConcurrentInit /\ [][ConcurrentNext]_vars

(***************************************************************************)
(* Properties.                                                             *)
(***************************************************************************)
Classified == namespace_result.reasoning # "not_run"
SearchEntered == search_extraction.tier # "not_run"
SearchOver == pc \in {"finalize", "done"}
CityTopic ==
  selected_namespace # Null /\ selected_namespace # Workout
    /\ selected_namespace # PublicHealthCenter
\* The hits of all_results that the first staged call returned.
FirstStageHits == Len(SelectSeq(all_results, LAMBDA h : h[1] = 1))
ScopeMinusTarget == SelectSeq(districts_to_search, LAMBDA d : d # target_district)
CompleteHint == Truthy(user_city) /\ Truthy(user_district)
NeedsRegionUnresolved ==
  /\ selected_namespace = PublicHealthCenter
  /\ SearchEntered
  /\ ~Truthy(search_extraction.result)

\* C1: a classification result whose confidence is below 0.30 has a null
\* namespace, whichever of the three classification operations produced it
\* and whatever the model replied.
C1_LowConfidenceHasNoNamespace ==
  (Classified /\ ConfOrZero(namespace_result.confidence) < 30)
    => namespace_result.namespace = Null

\* C2: for a query that contains a known region name as a substring,
\* _extract_unified_district returns that region by the direct-containment
\* step and puts no prompt to the model before it returns.
C2_DirectMatchWithoutModel ==
  (extraction.tier # "not_run" /\ query_scan.direct # Null)
    => /\ extraction.tier = "direct"
       /\ extraction.result = query_scan.direct
       /\ extraction.calls = <<>>

\* C3 as stated: a city-topic run whose first-stage search returned at
\* least 8 hits reports districts_searched = [target], issues no
\* second-stage call, and calls the search collaborator exactly once.
C3_SufficientFirstStageOneCall ==
  (SearchOver /\ CityTopic /\ Truthy(target_district) /\ FirstStageHits >= 8
     /\ response.source = "pinecone")
    => /\ response.search_info.districts_searched = <<target_district>>
       /\ \A i \in 1..Len(search_calls) : search_calls[i].filter.kind # "in"
       /\ Len(search_calls) = 1

\* C3 amended: a city-topic run whose first-stage search returned at least 8
\* hits reports districts_searched = [target] and issues no second-stage
\* call; the search collaborator is called once for the target with rerank,
\* and a second time only as the retry of that same call without rerank.
C3_SufficientFirstStageStops ==
  (SearchOver /\ CityTopic /\ Truthy(target_district) /\ FirstStageHits >= 8
     /\ response.source = "pinecone")
    => /\ response.search_info.districts_searched = <<target_district>>
       /\ \A i \in 1..Len(search_calls) : search_calls[i].filter.kind # "in"
       /\ LET first == [namespace |-> selected_namespace, text |-> query,
                        filter |-> [kind |-> "eq", regions |-> <<target_district>>],
                        top_k |-> 10, top_n |-> 8]
          IN  \/ search_calls = <<first>>
              \/ search_calls = <<first, [first EXCEPT !.top_n = 0]>>

\* C3 witnesses: the first stage was sufficient after a retry without rerank.
C3_SufficientAfterRetry ==
  /\ SearchOver /\ CityTopic /\ Truthy(target_district) /\ FirstStageHits >= 8
  /\ response.source = "pinecone"
  /\ Len(search_calls) = 2

\* C4: when the first-stage search returned 0 hits and the scope holds a
\* region other than the target, a second-stage call is issued whose region
\* filter is the scope without the target, in scope order.
C4_SecondStageFilter ==
  (SearchOver /\ CityTopic /\ Truthy(target_district)
     /\ searched_districts # <<>> /\ searched_districts[1] = target_district
     /\ FirstStageHits = 0 /\ ScopeMinusTarget # <<>>)
    => \E i \in 2..Len(search_calls) :
         /\ search_calls[i].filter = [kind |-> "in", regions |-> ScopeMinusTarget]
         /\ search_calls[i].namespace = selected_namespace
         /\ \A j \in 1..(i - 1) : search_calls[j].filter.kind = "eq"

C4_SecondStageIssued ==
  /\ pc = "finalize" /\ CityTopic /\ Truthy(target_district)
  /\ searched_districts # <<>> /\ searched_districts[1] = target_district
  /\ FirstStageHits = 0
  /\ Len(ScopeMinusTarget) = 3
  /\ search_calls[Len(search_calls)].filter.kind = "in"

\* The regions whose declared neighbour list is empty, with the prefix of
\* their city's namespaces and the city's popular regions.
IslandCases ==
  { [district |-> <<"gang","hwa","gun">>, prefix |-> <<"ich">>,
     popular |-> << <<"nam","dong","gu">>, <<"bu","pyeong","gu">>, <<"yeon","su","gu">> >>],
    [district |-> <<"ong","jin","gun">>, prefix |-> <<"ich">>,
     popular |-> << <<"nam","dong","gu">>, <<"bu","pyeong","gu">>, <<"yeon","su","gu">> >>],
    [district |-> <<"ul","reung","gun">>, prefix |-> <<"kb">>,
     popular |-> << <<"po","hang","si">>, <<"gyeong","ju","si">>, <<"an","dong","si">> >>] }
IslandLookup(c) ==
  /\ pc \in {"nearby", "relevant"}
  /\ target_district = c.district
  /\ StartsWith(selected_namespace, c.prefix)
  /\ limit >= 1

\* C5: for Ganghwa-gun, Ongjin-gun and Ulleung-gun, looked up under a namespace of their own
\* city with a limit of at least 1, get_nearby_districts and
\* select_relevant_nearby_districts return the region followed by the
\* city's popular regions (as many as the limit allows), never an empty
\* neighbour list.
C5_IslandFallback ==
  \A c \in IslandCases :
    IslandLookup(c)
      => /\ Len(districts_to_search) >= 2
         /\ districts_to_search[1] = c.district
         /\ Tail(districts_to_search)
              = SubSeq(c.popular, 1, IF limit < 3 THEN limit ELSE 3)

C5_IslandLookedUp ==
  /\ IslandLookup(CHOOSE c \in IslandCases : c.district = <<"ong","jin","gun">>)
  /\ pc = "nearby" /\ limit = 2
  /\ Len(districts_to_search) = 3

\* The declared neighbour list of a region under a namespace.
DeclaredNeighbors(target, ns) ==
  IF is_seoul_namespace(ns) /\ HasKey(SEOUL_DISTRICT_NEIGHBORS, target)
    THEN Lookup(SEOUL_DISTRICT_NEIGHBORS, target)
  ELSE IF is_gyeonggi_namespace(ns) /\ HasKey(GYEONGGI_DISTRICT_NEIGHBORS, target)
    THEN Lookup(GYEONGGI_DISTRICT_NEIGHBORS, target)
  ELSE IF is_incheon_namespace(ns) /\ HasKey(ICH_DISTRICT_NEIGHBORS, target)
    THEN Lookup(ICH_DISTRICT_NEIGHBORS, target)
  ELSE IF is_busan_namespace(ns) /\ HasKey(BUSAN_DISTRICT_NEIGHBORS, target)
    THEN Lookup(BUSAN_DISTRICT_NEIGHBORS, target)
  ELSE IF is_gyeongbuk_namespace(ns) /\ HasKey(GYEONGBUK_DISTRICT_NEIGHBORS, target)
    THEN Lookup(GYEONGBUK_DISTRICT_NEIGHBORS, target)
  ELSE <<>>

\* C6: in enriched mode (the model was asked to rank the neighbours of a
\* target that has declared neighbours), every region of the returned scope
\* other than the target is a declared neighbour of the target.
C6_EnrichedOnlyDeclaredNeighbors ==
  (pc = "relevant" /\ gen_calls # <<>>
     /\ DeclaredNeighbors(target_district, selected_namespace) # <<>>)
    => \A i \in 1..Len(districts_to_search) :
         \/ districts_to_search[i] = target_district
         \/ districts_to_search[i]
              \in Range(DeclaredNeighbors(target_district, selected_namespace))

\* C7: public_health_center with no region in the query text: without a
\* complete (city, district) hint the search ends with an error result
\* (status "error", results null) and no search call; with a complete hint
\* the hint is the target region and the search is filtered to it.
C7_RegionRequired ==
  NeedsRegionUnresolved =>
    IF CompleteHint
      THEN /\ target_district_full = user_city \o <<" ">> \o user_district
           /\ \/ pc = "health" /\ search_calls = <<>>
              \/ /\ SearchOver /\ search_calls # <<>>
                 /\ search_calls[1].namespace = PublicHealthCenter
                 /\ search_calls[1].filter
                      = [kind |-> "eq",
                         regions |-> <<user_city \o <<" ">> \o user_district>>]
      ELSE /\ SearchOver
           /\ search_calls = <<>>
           /\ pc = "finalize"
                => /\ response.source = "pinecone" /\ response.status = "error"
                   /\ ~response.results_present
                   /\ response.error = "region_required"

C7_ErrorWithoutHint ==
  /\ NeedsRegionUnresolved /\ ~CompleteHint /\ Truthy(user_city)
  /\ pc = "finalize" /\ response.error = "region_required"

\* C8: a request that ended with the region-required-but-unresolved error
\* returns that error (source "pinecone", status "error", an error field);
\* get_llm_response is not called.
C8_RegionErrorReturned ==
  (pc = "done" /\ NeedsRegionUnresolved /\ ~Truthy(target_district))
    => /\ response.source = "pinecone" /\ response.status = "error"
       /\ response.error = "region_required"
       /\ answer_calls = <<>>

\* C9: a process_query run in which the classifier selected no namespace,
\* or the search accumulated no hit, calls get_llm_response exactly once on
\* the raw query and returns a response of source "llm".
C9_FallbackOnNoResults ==
  (pc \in {"done", "raised"} /\ Classified
     /\ (selected_namespace = Null \/ all_results = <<>>))
    => /\ pc = "done"
       /\ response.source = "llm"
       /\ answer_calls = <<query>>

\* C10: the fallback response after a search that returned zero hits
\* carries the selected namespace, the classifier confidence, the resolved
\* region and the searched scope (target district, districts searched).
C10_FallbackKeepsSearchInfo ==
  (pc = "done" /\ response.source = "llm" /\ selected_namespace # Null
     /\ search_calls # <<>> /\ all_results = <<>>)
    => /\ response.debug.selected = selected_namespace
       /\ response.debug.confidence = confidence
       /\ response.debug.extracted_location = extracted_location
       /\ response.debug.search_info.present
       /\ response.debug.search_info.target_district = target_district
       /\ response.debug.search_info.districts_searched = searched_districts

\* C11: for the query "nun geomsa batgo sipeoyo" (an eye-care keyword),
\* classification takes the fast path: namespace public_health_center with
\* confidence 0.95 and no model call for classification.
C11_EyeExamFastPath ==
  (Classified /\ query = QueryEyeExam)
    => /\ namespace_result.namespace = PublicHealthCenter
       /\ namespace_result.confidence = 95
       /\ namespace_result.calls = <<>>

\* C12: for a query with a workout keyword the keyword list is checked
\* first: the namespace is workout with confidence 0.95 and no prompt was
\* put to the model before the namespace was decided, whether or not the
\* query is taken to name a region.
C12_KeywordBeforeModel ==
  (pc = "route" /\ query \in {QueryBackPain, QueryYoga})
    => /\ namespace_result.namespace = Workout
       /\ namespace_result.confidence = 95
       /\ gen_calls = <<>>

\* The city a single-city namespace belongs to.
OwnCity(ns) ==
  IF is_seoul_namespace(ns) THEN SeoulCity
  ELSE IF is_gyeonggi_namespace(ns) THEN GyeonggiCity
  ELSE IF is_incheon_namespace(ns) THEN IncheonCity
  ELSE IF is_busan_namespace(ns) THEN BusanCity
  ELSE IF is_gyeongbuk_namespace(ns) THEN GyeongbukCity
  ELSE Null
ResolvedCity == Split(extracted_location)[1]
ResolvedRegion == Split(extracted_location)[2]

\* C13: for a single-city namespace and a resolved (city, region), the
\* projection gives the bare region as target when the city is the
\* namespace's own and none otherwise, so a region of one city never
\* becomes the filter of another city's namespace.
C13_RegionOfOwnCityOnly ==
  (pc = "projected" /\ selected_namespace # PublicHealthCenter)
    => IF ResolvedCity = OwnCity(selected_namespace)
         THEN target_district = ResolvedRegion
         ELSE target_district_full = Null /\ target_district = Null

\* The i-th search call was reranked / failed for good: any other exception,
\* or any exception of a retry without rerank.
Reranked(i) == search_calls[i].top_n # 0
FailedForGood(i) ==
  \/ search_answers[i] = "error"
  \/ search_answers[i] = "token_limit" /\ ~Reranked(i)

\* C14: in search_pinecone, a reranked call that fails with the token-limit
\* error is followed by the same call (namespace, text, filter, top_k)
\* without rerank, and a call without rerank is only ever that one retry;
\* after a failing retry or any other failure no further call is made and
\* search_pinecone returns an error result (status "error") and does not
\* raise.
C14_RetryOnceThenError ==
  (selected_namespace # Workout) =>
    /\ Len(search_answers) = Len(search_calls)
    /\ pc # "raised" \/ search_calls = <<>>
    /\ \A i \in 1..Len(search_calls) :
         /\ (Reranked(i) /\ search_answers[i] = "token_limit")
              => /\ i < Len(search_calls)
                 /\ search_calls[i + 1] = [search_calls[i] EXCEPT !.top_n = 0]
         /\ ~Reranked(i)
              => /\ i > 1
                 /\ Reranked(i - 1) /\ search_answers[i - 1] = "token_limit"
         /\ FailedForGood(i)
              => /\ i = Len(search_calls)
                 /\ pc \in {"finalize", "done"}
                 /\ pc = "finalize"
                      => /\ response.source = "pinecone"
                         /\ response.status = "error"
                         /\ ~response.results_present

\* C14 witness: the second-stage call hit the token limit and its retry
\* without rerank failed too; search_pinecone returned the error result.
C14_RetryFailed ==
  /\ pc = "finalize" /\ CityTopic
  /\ Len(search_calls) = 3
  /\ search_answers = <<"hits", "token_limit", "token_limit">>
  /\ search_calls[3] = [search_calls[2] EXCEPT !.top_n = 0]
  /\ search_calls[3].filter.kind = "in"
  /\ response.status = "error"

\* C15: the caller's (city, district) hint determines the target region
\* only when the extractor finds no region in the query text: whenever the
\* extractor resolved a region, the target region is that region or none,
\* and no search call is filtered to a region taken from the hint.
C15_HintOnlyWithoutExtraction ==
  (SearchEntered /\ Truthy(search_extraction.result))
    => /\ target_district \in {Null, TargetDistrict(search_extraction.result)}
       /\ \A i \in 1..Len(search_calls) :
            search_calls[i].filter.kind = "eq"
              => search_calls[i].filter.regions[1]
                   \in {search_extraction.result,
                        TargetDistrict(search_extraction.result)}

GangnamGu == <<"gang","nam","gu">>
SeoulJob == Key("seoul", <<"job">>)
\* The topic model's answer 'job' was taken for the namespace.
TopicJob ==
  /\ namespace_result.reasoning = "category"
  /\ Len(namespace_result.namespace) >= 1
  /\ namespace_result.namespace[Len(namespace_result.namespace)] = "job"

\* C16: for the query "gangnamgu noin iljari", the location check having
\* reported a location: the extractor resolves Seoul, Gangnam-gu by direct
\* match before the classifier runs; with the topic model answering 'job'
\* the classifier selects seoul_job; and the first search call issued is on
\* seoul_job, filtered to exactly Gangnam-gu.
C16_ScenarioGangnamJobs ==
  (query = QueryJobs /\ has_location) =>
    /\ Classified => extraction.tier # "not_run"
    /\ extraction.tier # "not_run"
         => /\ extraction.tier = "direct"
            /\ extraction.result = Join2(SeoulCity, GangnamGu)
            /\ extracted_location = Join2(SeoulCity, GangnamGu)
    /\ search_calls # <<>> => Classified
    /\ TopicJob
         => /\ selected_namespace = SeoulJob
            /\ SearchEntered => target_district = GangnamGu
            /\ search_calls # <<>>
                 => search_calls[1] =
                      [namespace |-> SeoulJob, text |-> QueryJobs,
                       filter |-> [kind |-> "eq", regions |-> <<GangnamGu>>],
                       top_k |-> 10, top_n |-> 8]

\* C16 witness: the scenario ran up to its first search call.
C16_GangnamSearched ==
  /\ query = QueryJobs /\ has_location /\ TopicJob
  /\ extraction.tier = "direct"
  /\ pc = "stage2"
  /\ Len(search_calls) = 1
  /\ search_calls[1].filter = [kind |-> "eq", regions |-> <<GangnamGu>>]

\* C17: for a region with a non-empty declared neighbour list under the
\* namespace's city and every limit, get_nearby_districts returns the
\* region followed by exactly the first min(limit, number of declared
\* neighbours) declared neighbours, in declared order.
C17_DeclaredPrefix ==
  LET declared == DeclaredNeighbors(target_district, selected_namespace)
      n == IF limit < Len(declared) THEN limit ELSE Len(declared)
  IN  (pc = "nearby" /\ declared # <<>>)
        => /\ Len(districts_to_search) = 1 + n
           /\ districts_to_search[1] = target_district
           /\ \A i \in 1..n : districts_to_search[i + 1] = declared[i]

\* C17 witness: Gangnam-gu under seoul_job with limit 2 gives Gangnam-gu,
\* Seocho-gu, Songpa-gu, the declared list cut to two.
C17_GangnamTruncated ==
  /\ pc = "nearby" /\ limit = 2
  /\ selected_namespace = Key("seoul", <<"job">>)
  /\ target_district = <<"gang","nam","gu">>
  /\ Len(DeclaredNeighbors(target_district, selected_namespace)) > 2
  /\ districts_to_search
       = << <<"gang","nam","gu">>, <<"seo","cho","gu">>, <<"song","pa","gu">> >>

\* The five city families: the prefix of their namespaces, their adjacency
\* table and their popular regions as written in the lookup functions.
CityFamilies ==
  { [prefix |-> <<"seoul">>, table |-> SEOUL_DISTRICT_NEIGHBORS,
     popular |-> << <<"gang","nam","gu">>, <<"seo","cho","gu">>, <<"jong","ro","gu">> >>],
    [prefix |-> <<"kk">>, table |-> GYEONGGI_DISTRICT_NEIGHBORS,
     popular |-> << <<"su","won","si">>, <<"seong","nam","si">>, <<"go","yang","si">> >>],
    [prefix |-> <<"ich">>, table |-> ICH_DISTRICT_NEIGHBORS,
     popular |-> << <<"nam","dong","gu">>, <<"bu","pyeong","gu">>, <<"yeon","su","gu">> >>],
    [prefix |-> <<"bs">>, table |-> BUSAN_DISTRICT_NEIGHBORS,
     popular |-> << <<"hae","un","dae","gu">>, <<"bu","san","jin","gu">>, <<"nam","gu">> >>],
    [prefix |-> <<"kb">>, table |-> GYEONGBUK_DISTRICT_NEIGHBORS,
     popular |-> << <<"po","hang","si">>, <<"gyeong","ju","si">>, <<"an","dong","si">> >>] }
\* The lookup ran for a region that is absent or not in the family's table.
UnknownLookup(f) ==
  /\ pc = "nearby"
  /\ StartsWith(selected_namespace, f.prefix)
  /\ \/ target_district \in {Null, <<>>}
     \/ \A i \in 1..Len(f.table) : f.table[i][1] # target_district

\* C18: for each of the five city families and every region that is absent
\* or not in the city's adjacency table, get_nearby_districts returns the
\* city's popular regions, a non-empty list, whatever the limit.
C18_UnknownGetsPopular ==
  \A f \in CityFamilies :
    UnknownLookup(f)
      => /\ districts_to_search = f.popular
         /\ districts_to_search # <<>>

\* C18 witness: a Seoul region looked up under a Busan namespace, limit 1.
C18_SeoulRegionInBusan ==
  /\ UnknownLookup(CHOOSE f \in CityFamilies : f.prefix = <<"bs">>)
  /\ target_district = <<"gang","nam","gu">> /\ limit = 1
  /\ Len(districts_to_search) = 3

\* C19: for every call of select_relevant_nearby_districts with a target
\* region and a city namespace, the returned scope has the target region
\* first, followed by at most max_neighbors further regions.
C19_TargetFirstInScope ==
  (pc = "relevant" /\ Truthy(target_district) /\ CityTopic)
    => /\ districts_to_search # <<>>
       /\ districts_to_search[1] = target_district
       /\ Len(districts_to_search) <= 1 + limit

\* A reply that is no match for steps 4, 5 and 6: the call raised (or timed
\* out), the text held no JSON with both parts, or the region is not a
\* known one; and the same for the city-and-dong prompt, which takes only a
\* region of the detected city.
NoMatch(r) ==
  \/ r.kind # "json"
  \/ r.city \in {Null, <<>>} \/ r.district \in {Null, <<>>}
  \/ \A i \in 1..Len(all_districts) : all_districts[i] # r.district
NoMatchCityDong(r) ==
  \/ r.kind # "json"
  \/ \A i \in 1..Len(query_scan.cds) : query_scan.cds[i] # r.district
Extracted == pc = "extracted"
NoTextMatch == query_scan.direct = Null /\ query_scan.regex = Null
\* The model steps that ran before step k failed, k in 4..6.
FailedBefore(k) ==
  /\ (k > 4 /\ CallsDong(query_scan, gemini_client)) => NoMatch(extract_replies[2])
  /\ (k > 5 /\ CallsWords(query_scan, gemini_client)) => NoMatch(extract_replies[3])

\* C20: in _extract_unified_district a model step whose call raises, whose
\* reply is not usable JSON or names an unknown region is no match and the
\* next step is tried: the first later step with a usable reply gives the
\* result; the result is none when every step fails; and the region of any
\* result is a known region name.
C20_ModelStepsFallible ==
  Extracted =>
    /\ extraction.result # Null
         => \E i \in 1..Len(all_districts) :
              all_districts[i] = TargetDistrict(extraction.result)
    /\ (CallsCityDong(query_scan, gemini_client) /\ NoMatchCityDong(extract_replies[1])
          /\ query_scan.direct # Null)
         => extraction.tier = "direct" /\ extraction.result = query_scan.direct
    /\ (NoTextMatch /\ gemini_client) =>
         /\ (FailedBefore(5) /\ CallsWords(query_scan, gemini_client)
               /\ ~NoMatch(extract_replies[3]))
              => /\ extraction.tier = "words"
                 /\ extraction.result
                      = Join2(extract_replies[3].city, extract_replies[3].district)
         /\ (FailedBefore(6) /\ ~NoMatch(extract_replies[4]))
              => /\ extraction.tier = "whole"
                 /\ extraction.result
                      = Join2(extract_replies[4].city, extract_replies[4].district)
         /\ (FailedBefore(6) /\ NoMatch(extract_replies[4]))
              => /\ extraction.result = Null
                 /\ extraction.calls
                      = (IF CallsDong(query_scan, gemini_client)
                           THEN <<"extract_dong">> ELSE <<>>)
                        \o (IF CallsWords(query_scan, gemini_client)
                              THEN <<"extract_words">> ELSE <<>>)
                        \o <<"extract_whole">>
    /\ (NoTextMatch /\ ~gemini_client)
         => extraction.result = Null /\ extraction.calls = <<>>

\* C20 witness: the dong step raised, the word step named an unknown
\* region, and the whole-query step resolved a known one.
C20_ThirdStepResolved ==
  /\ Extracted /\ NoTextMatch
  /\ extract_replies[2].kind = "raise"
  /\ extract_replies[3] = JsonReply(SeoulCity, <<"yeok","sam","dong">>)
  /\ extraction.tier = "whole"
  /\ extraction.calls = <<"extract_dong", "extract_words", "extract_whole">>
  /\ extraction.result = Join2(SeoulCity, <<"seo","cho","gu">>)

\* C21: when a region has been resolved, every non-null namespace that
\* select_namespace_with_location returns is a key of the namespace catalog
\* that belongs to the city of the resolved region.
C21_NamespaceOfResolvedCity ==
  (Classified /\ has_location /\ Truthy(extracted_location)
     /\ selected_namespace # Null)
    => /\ InCatalog(selected_namespace)
       /\ OwnCity(selected_namespace) # Null
       /\ Contains(extracted_location, OwnCity(selected_namespace))

Selected == pc = "selected"

\* C22: in select_namespace, for every model outcome: an answer that parses
\* as JSON, or else an object recovered from the text, is returned with its
\* namespace and confidence, the namespace set to none when the confidence
\* (0 when absent) is below 0.30; when neither works, when the call raises
\* or when there is no client, the result is namespace none with
\* confidence 0; the prompt is put at most once.
C22_ParseRecoverOrNull ==
  Selected =>
    IF ~gemini_client THEN
      /\ namespace_result.namespace = Null /\ namespace_result.confidence = 0
      /\ gen_calls = <<>>
    ELSE
      LET r == classify_replies[1]
          c == IF r.confidence = -1 THEN 0 ELSE r.confidence
      IN  /\ gen_calls = <<"select_namespace">>
          /\ r.kind \in {"json", "embedded"}
               => /\ namespace_result.confidence = r.confidence
                  /\ namespace_result.namespace
                       = (IF c < 30 THEN Null ELSE r.namespace)
          /\ r.kind \in {"nojson", "raise"}
               => /\ namespace_result.namespace = Null
                  /\ namespace_result.confidence = 0

\* C22 witness: an object recovered from the text was used, at the clamp's
\* boundary.
C22_RecoveredUsed ==
  /\ Selected /\ gemini_client
  /\ classify_replies[1].kind = "embedded"
  /\ classify_replies[1].confidence = 30
  /\ namespace_result.namespace = Key("seoul", <<"job">>)

\* A city-topic search_pinecone run is over, the index being there, and no
\* target region was resolved.
NoTargetRunOver ==
  /\ SearchOver /\ CityTopic /\ SearchEntered /\ dense_index
  /\ ~Truthy(target_district)
\* The one call without a region filter, with rerank.
UnfilteredCall ==
  [namespace |-> selected_namespace, text |-> query,
   filter |-> [kind |-> "none", regions |-> <<>>], top_k |-> 10, top_n |-> 8]
TargetOnlyIssued ==
  \E i \in 1..Len(search_calls) : search_calls[i].filter.kind = "eq"

ExpansionCalls == {i \in 1..Len(search_calls) : search_calls[i].filter.kind = "in"}
Requested(i) ==
  IF search_calls[i].top_n # 0 THEN search_calls[i].top_n ELSE search_calls[i].top_k

\* C24: the neighbour-expansion call asks for exactly 8 minus the number of
\* first-stage hits, on the reranked attempt and on its retry without
\* rerank alike; its hits come after the first-stage hits, and no search
\* call follows it.
C24_ExpansionAsksForMissing ==
  (CityTopic /\ SearchOver)
    => /\ \A i \in ExpansionCalls :
            /\ Requested(i) = 8 - FirstStageHits
            /\ \A j \in (i + 1)..Len(search_calls) :
                 search_calls[j] = [search_calls[i] EXCEPT !.top_n = 0]
       /\ \A k \in 1..Len(all_results) :
            all_results[k][1] = 2
              => \A m \in (k + 1)..Len(all_results) : all_results[m][1] = 2

\* C25: when no target region is resolved and the namespace is a
\* city-topic one, the scope is the popular regions of the namespace's
\* city, and the search call is filtered to that scope.
C25_PopularScopeWithoutTarget ==
  (NoTargetRunOver /\ search_calls # <<>>)
    => \E f \in CityFamilies :
         /\ StartsWith(selected_namespace, f.prefix)
         /\ districts_to_search = f.popular
         /\ search_calls[1].filter = [kind |-> "in", regions |-> f.popular]

C27_ProcessQueryNeverRaises == pc # "raised"

\* C28: in every request, deciding the namespace costs at most one
\* generative-model call, also when a region was resolved and the category
\* answer is missing, unparsable or composes a key outside the catalog.
C28_AtMostOneClassifyCall == Classified => Len(namespace_result.calls) <= 1

\* The staged calls are the reranked ones; a call without rerank is a retry.
StagedCalls == {i \in 1..Len(search_calls) : search_calls[i].top_n # 0}
\* Every call without rerank repeats the call before it, which was reranked
\* and failed with the input-size-limit error.
RetriesOnlyTokenLimit ==
  \A i \in 1..Len(search_calls) :
    search_calls[i].top_n = 0
      => /\ i > 1
         /\ search_calls[i - 1].top_n # 0
         /\ search_calls[i] = [search_calls[i - 1] EXCEPT !.top_n = 0]
         /\ search_answers[i - 1] = "token_limit"
NoSearchRepeated ==
  \A i, j \in 1..Len(search_calls) : i < j => search_calls[i] # search_calls[j]
NoPromptRepeated ==
  \A i, j \in 1..Len(gen_calls) : i < j => gen_calls[i] # gen_calls[j]
\* C29: a search_pinecone run that reaches the search stages makes one or two
\* staged search calls; the only call ever repeated is the single no-rerank
\* retry of a call that failed with the input-size-limit error, and no other
\* collaborator call is made again in the request.
C29_OnlyTheRetryRepeats ==
  /\ (SearchOver /\ CityTopic /\ search_calls # <<>>)
       => Cardinality(StagedCalls) \in {1, 2}
  /\ RetriesOnlyTokenLimit
  /\ NoSearchRepeated
  /\ NoPromptRepeated

\* The (city, name) pairs of the gazetteer in iteration order.
BlockPairs(i) ==
  [k \in 1..Len(CityBlocks[i][2]) |-> <<CityBlocks[i][1], CityBlocks[i][2][k][1]>>]
GazetteerPairs ==
  BlockPairs(1) \o BlockPairs(2) \o BlockPairs(3) \o BlockPairs(4) \o BlockPairs(5)
FirstContained(q) ==
  LET H == {i \in 1..Len(GazetteerPairs) : Contains(q, GazetteerPairs[i][2])}
      p == GazetteerPairs[CHOOSE i \in H : \A j \in H : i <= j]
  IN  Join2(p[1], p[2])
\* C30: the direct-containment step returns the (city, region) pair that
\* comes first in gazetteer iteration order among the names the query
\* holds, wherever they stand in the query; a query naming exactly one
\* region (namdong-gu) resolves to it and not to a shorter name inside it
\* (dong-gu).
C30_FirstInGazetteerOrder ==
  (pc = "extracted" /\ extraction.tier = "direct")
    => /\ extracted_location = FirstContained(query)
       /\ query = QueryNamdong
            => extracted_location = Join2(IncheonCity, <<"nam","dong","gu">>)

\* The pair at place i of the gazetteer is the first whose name the query
\* holds.
FirstMatchAt(i) ==
  /\ Contains(query, GazetteerPairs[i][2])
  /\ \A j \in 1..(i - 1) : ~Contains(query, GazetteerPairs[j][2])
\* C31: every (city, region) pair returned by the direct-containment step is
\* a pair of the gazetteer, and its city is the parent city of the block in
\* which the matching name was found during iteration, also for a name
\* declared in more than one city block.
C31_CityOfMatchingBlock ==
  (pc = "extracted" /\ extraction.tier = "direct")
    => \E i \in 1..Len(GazetteerPairs) :
         /\ FirstMatchAt(i)
         /\ extracted_location = Join2(GazetteerPairs[i][1], GazetteerPairs[i][2])

\* The query holds a token ending in gu, si, gun or dong.
SuffixTokenFound ==
  \/ SuffixMatches(query, "gu") # <<>> \/ SuffixMatches(query, "si") # <<>>
  \/ SuffixMatches(query, "gun") # <<>> \/ query_scan.dongs # <<>>
Called(name) == \E i \in 1..Len(extraction.calls) : extraction.calls[i] = name
\* C32: the extractor's tiers run in the specified order, and the free-form
\* candidate tier (blank-separated words sent to the model) is invoked only
\* if the query holds no suffix-pattern token; after a dong candidate whose
\* model resolution failed it is skipped.
C32_FreeFormOnlyWithoutSuffixToken ==
  pc = "extracted"
    => /\ Called("extract_words") => ~SuffixTokenFound
       /\ \A i, j \in 1..Len(extraction.calls) :
            (extraction.calls[i] = "extract_words" /\ extraction.calls[j] = "extract_dong")
              => FALSE

WorkoutCategoryFilter(f) ==
  f.kind = "eq" /\ Len(f.regions) = 1 /\ HasKey(category_mappings, f.regions[1])
TitleCalls ==
  {i \in 1..Len(search_calls) :
     search_calls[i].filter = NoFilter /\ search_calls[i].top_n # 0}
\* C33: for the workout namespace the search never runs the location
\* extractor and never filters by region; it searches by the extracted
\* exercise category first and, on zero hits or without a category, makes
\* exactly one title search without a filter, and it returns a structured
\* result in every case.
C33_WorkoutSearchStructured ==
  selected_namespace = Workout
    => /\ search_extraction.tier = "not_run"
       /\ \A i \in 1..Len(search_calls) :
            \/ search_calls[i].filter = NoFilter
            \/ WorkoutCategoryFilter(search_calls[i].filter)
       /\ Cardinality(TitleCalls) <= 1
       /\ \A i \in TitleCalls : \A j \in (i + 1)..Len(search_calls) :
            search_calls[j].filter = NoFilter
       /\ pc # "raised"

\* C34: in every process_query run the namespace passed to the search
\* collaborator is a key of the namespace catalog; a name proposed by the
\* model that is not in the catalog never reaches a search call.
C34_SearchedNamespaceInCatalog ==
  \A i \in 1..Len(search_calls) : InCatalog(search_calls[i].namespace)

\* C35: in every run where the location check reports no location, the
\* selected namespace is workout or null whatever hint the caller supplies;
\* the query is never routed to a city-topic or health-center namespace.
C35_NoLocationWorkoutOrNull ==
  (Classified /\ ~has_location)
    => /\ selected_namespace \in {Workout, Null}
       /\ namespace_result.calls = <<>>
       /\ \A i \in 1..Len(search_calls) : search_calls[i].namespace = Workout
C35_HintedNoLocationRun ==
  /\ pc = "done" /\ Classified /\ ~has_location /\ CompleteHint
  /\ query = QueryEyeExam /\ selected_namespace = Null

\* C36: within one process_query run the region that filters the search is
\* the region that chose the namespace: the extraction made for namespace
\* selection and the one repeated inside search_pinecone yield the same
\* (city, region), whatever the model answers.
C36_SameRegionBothExtractions ==
  (has_location /\ Classified /\ SearchEntered)
    => search_extraction.result = extraction.result

\* The caller's complete hint names a city other than the namespace's own.
HintOfOtherCity ==
  /\ CompleteHint
  /\ OwnCity(selected_namespace) # Null
  /\ user_city # OwnCity(selected_namespace)
  /\ ~Contains(user_city, SubSeq(OwnCity(selected_namespace), 1, 2))
  /\ ~Contains(user_city, <<"gyeong","buk">>)
FromQuery == extract_district_from_query(search_extraction.result, selected_namespace)
\* C37: for a single-city namespace a caller's hint whose city is not the
\* namespace's city is never used as the target region: no search call
\* carries a region filter derived from the hint and the run proceeds as
\* one without a hint.
C37_ForeignHintUnused ==
  (SearchEntered /\ HintOfOtherCity)
    => /\ target_district_full = FromQuery
       /\ \A i \in 1..Len(search_calls) : \A k \in 1..Len(search_calls[i].filter.regions) :
            search_calls[i].filter.regions[k] = user_district => Truthy(FromQuery)
       /\ ~Truthy(FromQuery)
            => \A i \in 1..Len(search_calls) : search_calls[i].filter = NoFilter
C37_ForeignHintSearched ==
  /\ pc = "done" /\ SearchEntered /\ HintOfOtherCity
  /\ ~Truthy(FromQuery) /\ search_calls # <<>>

\* The hits of stage one stand before those of stage two.
StagesInOrder(hs) ==
  \A i, j \in 1..Len(hs) : i < j => hs[i][1] <= hs[j][1]
HitsReturnedWithoutAnswer ==
  /\ answer_calls = <<>>
  /\ response.source = "pinecone"
  /\ response.status = "success"
  /\ response.hits = all_results
  /\ StagesInOrder(response.hits)
\* C38: in every process_query run with a namespace selected that ends with
\* at least one accumulated hit, the answer collaborator is not invoked and
\* the response is the pinecone result holding all accumulated hits, the
\* first-stage hits before the neighbor-stage hits.
C38_HitsReturnedWithoutAnswer ==
  (pc = "done" /\ selected_namespace # Null /\ all_results # <<>>)
    => HitsReturnedWithoutAnswer

====
